---- MODULE Spec2Model ----
(***************************************************************************)
(* Columnar transposition cipher, its key codec and its attacks            *)
(* (cipher.py, attack.py, scoring.py, dictionary.py).                      *)
(*                                                                         *)
(* A Python string is a sequence of one-character strings: "312" is        *)
(* <<"3","1","2">>.  A call that may raise returns a record                *)
(* [err, val]: err = "none" and val the returned value, or err the error   *)
(* raised and val empty.  "InvalidKey" is the ValueError of normalize_key    *)
(* (line 49), "SubstringNotFound" the ValueError of str.index.             *)
(***************************************************************************)
EXTENDS Integers, Sequences, FiniteSets, TLC

VARIABLES pc, key, text, keep_spaces, valid, normalized, renormalized,
          encrypted, decrypted,
          min_key_length, max_key_length, key_len, results,
          current_key, current_score, best_key, best_plaintext, best_score,
          no_improvement_count, iteration, max_iterations,
          population, population_size, generation, generations, evaluated,
          recommendations, num_recommendations, max_word_length,
          random_state, seed, draws, all_lengths

vars == <<pc, key, text, keep_spaces, valid, normalized, renormalized,
          encrypted, decrypted,
          min_key_length, max_key_length, key_len, results,
          current_key, current_score, best_key, best_plaintext, best_score,
          no_improvement_count, iteration, max_iterations,
          population, population_size, generation, generations, evaluated,
          recommendations, num_recommendations, max_word_length,
          random_state, seed, draws, all_lengths>>

\* The locals of hill_climbing_attack and genetic_algorithm_attack, and
\* evaluated: the highest score evaluate_plaintext has returned in the run
\* (-1 before the first evaluation).
searchVars == <<current_key, current_score, best_key, best_plaintext, best_score,
                no_improvement_count, iteration, max_iterations,
                population, population_size, generation, generations, evaluated>>

\* The variables of attack.py.
attackVars == <<min_key_length, max_key_length, key_len, results>>

\* The list of recommend_keys before it is cut and its num_recommendations,
\* the max_word_length of segment_text, the generator of the module
\* random that every search draws from (its state, the seed it was given
\* and, for each run, the numbers the run has drawn), and the key lengths
\* recommend_keys has still to try.
otherVars == <<recommendations, num_recommendations, max_word_length,
               random_state, seed, draws, all_lengths>>

\* ------------------------------------------------------------------ bounds
\* Longest key drawn over the whole key alphabet, and longest numeric key.
MaxKeyLen == 3
\* Longest plaintext.
MaxTextLen == 4
\* Longest keyword of the long-keyword families (ranks reach two digits at 10).
MaxKeywordLen == 10
\* Longest ciphertext given to an attack.
MaxCipherLen == 3
\* Largest max_key_length given to brute_force_attack as a whole.
MaxBruteLen == 3
\* Largest max_key_length given to smart_attack.
MaxSmartLen == 10
\* Largest key length of the brute-force loop taken one candidate at a time.
MaxCandidateLen == 10

\* -------------------------------------------------------------- characters
Digits == <<"0", "1", "2", "3", "4", "5", "6", "7", "8", "9">>

UpperLetters ==
    <<"A", "B", "C", "D", "E", "F", "G", "H", "I", "J", "K", "L", "M",
      "N", "O", "P", "Q", "R", "S", "T", "U", "V", "W", "X", "Y", "Z">>

LowerLetters ==
    <<"a", "b", "c", "d", "e", "f", "g", "h", "i", "j", "k", "l", "m",
      "n", "o", "p", "q", "r", "s", "t", "u", "v", "w", "x", "y", "z">>

IsDigitChar(c) == \E i \in 1..10 : Digits[i] = c

IsUpperChar(c) == \E i \in 1..26 : UpperLetters[i] = c

IsLowerChar(c) == \E i \in 1..26 : LowerLetters[i] = c

IsAlphaChar(c) == IsUpperChar(c) \/ IsLowerChar(c)

\* str.upper() on one character.
Upper(c) ==
    IF IsLowerChar(c)
    THEN UpperLetters[CHOOSE i \in 1..26 : LowerLetters[i] = c]
    ELSE c

\* The code point, which is what Python compares one-character strings by.
CodePoint(c) ==
    IF IsDigitChar(c) THEN 47 + (CHOOSE i \in 1..10 : Digits[i] = c)
    ELSE IF IsUpperChar(c) THEN 64 + (CHOOSE i \in 1..26 : UpperLetters[i] = c)
    ELSE IF IsLowerChar(c) THEN 96 + (CHOOSE i \in 1..26 : LowerLetters[i] = c)
    ELSE 32

\* str.isdigit(): non-empty and every character a digit.
isdigit(s) == s # <<>> /\ \A i \in 1..Len(s) : IsDigitChar(s[i])

\* str.isalpha(): non-empty and every character a letter.
isalpha(s) == s # <<>> /\ \A i \in 1..Len(s) : IsAlphaChar(s[i])

\* str(i) for i >= 0: the decimal digits of i.
RECURSIVE DecStr(_)
DecStr(i) ==
    IF i < 10 THEN <<Digits[i + 1]>>
    ELSE DecStr(i \div 10) \o <<Digits[(i % 10) + 1]>>

\* ''.join(parts) for a sequence of strings, and the concatenation of a
\* sequence of lists (halved at each step to keep the recursion shallow).
RECURSIVE Join(_)
Join(parts) ==
    IF Len(parts) = 0 THEN <<>>
    ELSE IF Len(parts) = 1 THEN parts[1]
    ELSE LET half == Len(parts) \div 2
         IN Join(SubSeq(parts, 1, half)) \o Join(SubSeq(parts, half + 1, Len(parts)))

\* s.index(sub), 0-based; -1 stands for ValueError('substring not found').
StrIndex(s, sub) ==
    LET hits == {i \in 0..(Len(s) - Len(sub)) :
                    SubSeq(s, i + 1, i + Len(sub)) = sub}
    IN IF hits = {} THEN -1
       ELSE CHOOSE i \in hits : \A j \in hits : i <= j

Ok(v) == [err |-> "none", val |-> v]

Raise(e) == [err |-> e, val |-> <<>>]

Unset == [err |-> "unset", val |-> <<>>]

\* --------------------------------------------------------------- key codec
\* sorted(indexed_chars, key=lambda x: x[0]): a stable sort on the character;
\* one insertion puts x after every element whose character is <= x's.
RECURSIVE InsertByChar(_, _)
InsertByChar(sorted, x) ==
    IF sorted = <<>> THEN <<x>>
    ELSE IF CodePoint(Head(sorted)[1]) <= CodePoint(x[1])
         THEN <<Head(sorted)>> \o InsertByChar(Tail(sorted), x)
         ELSE <<x>> \o sorted

RECURSIVE SortedByChar(_)
SortedByChar(s) ==
    IF s = <<>> THEN <<>>
    ELSE InsertByChar(SortedByChar(SubSeq(s, 1, Len(s) - 1)), s[Len(s)])

\* The loop of lines 22-23: numeric_key[original_idx] = str(rank).
RECURSIVE AssignRanks(_, _, _)
AssignRanks(numeric_key, sorted_chars, rank) ==
    IF rank > Len(sorted_chars) THEN numeric_key
    ELSE AssignRanks(
            [numeric_key EXCEPT ![sorted_chars[rank][2] + 1] = DecStr(rank)],
            sorted_chars, rank + 1)

keyword_to_numeric(keyword) ==
    LET indexed_chars == [i \in 1..Len(keyword) |-> <<Upper(keyword[i]), i - 1>>]
        sorted_chars == SortedByChar(indexed_chars)
        numeric_key == [i \in 1..Len(keyword) |-> <<"0">>]
    IN Join(AssignRanks(numeric_key, sorted_chars, 1))

\* validate_key with the set comparison of line 38 weakened to inclusion.
validate_key_subset(k) ==
    IF k = <<>> THEN FALSE
    ELSE IF isdigit(k)
         THEN LET key_set == {<<k[i]>> : i \in 1..Len(k)}
                  expected_set == {DecStr(i) : i \in 1..Len(k)}
              IN key_set \subseteq expected_set
         ELSE isalpha(k)

validate_key(k) ==
    IF k = <<>> THEN FALSE
    ELSE IF isdigit(k)
         THEN LET key_set == {<<k[i]>> : i \in 1..Len(k)}
                  expected_set == {DecStr(i) : i \in 1..Len(k)}
              IN key_set = expected_set
         ELSE isalpha(k)

normalize_key(k) ==
    IF ~validate_key(k) THEN Raise("InvalidKey")
    ELSE IF isdigit(k) THEN Ok(k)
         ELSE Ok(keyword_to_numeric(k))

\* ------------------------------------------------------------------ cipher
Filler == "X"

\* math.ceil(a / b) for a >= 0, b > 0.
CeilDiv(a, b) == (a + b - 1) \div b

NotSpace(c) == c # " "

\* plaintext.replace(' ', '')
RemoveSpaces(s) == SelectSeq(s, NotSpace)

\* Lines 77-83: pad with the filler to a full rectangle.
PaddedText(plaintext, key_length) ==
    LET num_rows == CeilDiv(Len(plaintext), key_length)
        total_chars == num_rows * key_length
        padding_needed == total_chars - Len(plaintext)
    IN plaintext \o [i \in 1..padding_needed |-> Filler]

\* Lines 100-101: the column read for each rank 1..key_length, in that
\* order; -1 where index() raises.
ColumnOrder(numeric_key) ==
    [col_num \in 1..Len(numeric_key) |-> StrIndex(numeric_key, DecStr(col_num))]

\* Lines 85-105 for a numeric key every rank of which index() finds.
ReadColumns(padded_text, numeric_key) ==
    LET key_length == Len(numeric_key)
        num_rows == CeilDiv(Len(padded_text), key_length)
        matrix == [i \in 0..(num_rows - 1) |->
                     [j \in 0..(key_length - 1) |->
                        IF i * key_length + j < Len(padded_text)
                        THEN padded_text[i * key_length + j + 1]
                        ELSE Filler]]
        order == ColumnOrder(numeric_key)
        column(col_num) == [r \in 1..num_rows |-> matrix[r - 1][order[col_num]]]
    IN Join([col_num \in 1..key_length |-> column(col_num)])

encrypt(plaintext, k, keep) ==
    LET nk == normalize_key(k)
    IN IF nk.err # "none" THEN nk
       ELSE LET numeric_key == nk.val
                stripped == IF keep THEN plaintext ELSE RemoveSpaces(plaintext)
                padded_text == PaddedText(stripped, Len(numeric_key))
            IN IF \E c \in 1..Len(numeric_key) : ColumnOrder(numeric_key)[c] = -1
               THEN Raise("SubstringNotFound")
               ELSE Ok(ReadColumns(padded_text, numeric_key))

\* Lines 133-138: step s fills row s % num_rows of the column of rank
\* s \div num_rows + 1, while ciphertext is left.
RECURSIVE FillColumns(_, _, _, _, _, _)
FillColumns(matrix, ciphertext, order, num_rows, s, char_idx) ==
    IF s >= Len(order) * num_rows THEN matrix
    ELSE LET col_idx == order[(s \div num_rows) + 1]
             row_idx == s % num_rows
         IN IF char_idx < Len(ciphertext)
            THEN FillColumns(
                    [matrix EXCEPT ![row_idx][col_idx] = <<ciphertext[char_idx + 1]>>],
                    ciphertext, order, num_rows, s + 1, char_idx + 1)
            ELSE FillColumns(matrix, ciphertext, order, num_rows, s + 1, char_idx)

\* plaintext.rstrip('X')
RECURSIVE rstrip(_)
rstrip(s) ==
    IF s # <<>> /\ s[Len(s)] = Filler THEN rstrip(SubSeq(s, 1, Len(s) - 1))
    ELSE s

\* Lines 123-143: the text read row by row, before the filler is stripped.
Reconstructed(ciphertext, numeric_key) ==
    LET key_length == Len(numeric_key)
        num_rows == CeilDiv(Len(ciphertext), key_length)
        empty == [i \in 0..(num_rows - 1) |-> [j \in 0..(key_length - 1) |-> <<>>]]
        matrix == FillColumns(empty, ciphertext, ColumnOrder(numeric_key),
                              num_rows, 0, 0)
    IN Join([r \in 1..num_rows |->
                Join([c \in 1..key_length |-> matrix[r - 1][c - 1]])])

decrypt(ciphertext, k) ==
    LET nk == normalize_key(k)
    IN IF nk.err # "none" THEN nk
       ELSE LET numeric_key == nk.val
            IN IF \E c \in 1..Len(numeric_key) : ColumnOrder(numeric_key)[c] = -1
               THEN Raise("SubstringNotFound")
               ELSE Ok(rstrip(Reconstructed(ciphertext, numeric_key)))

\* ----------------------------------------------------------------- scoring
\* Floats are fixed-point numbers here: chi-squared in thousandths, the
\* scores in [0, 1] in millionths, the scores in points (0..150) in
\* thousandths of a point, each division rounded down.
\* ENGLISH_FREQ for 'A'..'Z', in thousandths of a percent (8.167 is 8167).
ENGLISH_FREQ ==
    <<8167, 1492, 2782, 4253, 12702, 2228, 2015, 6094, 6966, 153, 772, 4025,
      2406, 6749, 7507, 1929, 95, 5987, 6327, 9056, 2758, 978, 2360, 150,
      1974, 74>>

COMMON_BIGRAMS ==
    {<<"T", "H">>, <<"H", "E">>, <<"I", "N">>, <<"E", "R">>, <<"A", "N">>,
     <<"R", "E">>, <<"O", "N">>, <<"A", "T">>, <<"E", "N">>, <<"N", "D">>,
     <<"T", "I">>, <<"E", "S">>, <<"O", "R">>, <<"T", "E">>, <<"O", "F">>,
     <<"E", "D">>, <<"I", "S">>, <<"I", "T">>, <<"A", "L">>, <<"A", "R">>,
     <<"S", "T">>, <<"T", "O">>, <<"N", "T">>, <<"N", "G">>, <<"S", "E">>,
     <<"H", "A">>, <<"A", "S">>, <<"O", "U">>, <<"I", "O">>, <<"L", "E">>}

COMMON_TRIGRAMS ==
    {<<"T", "H", "E">>, <<"A", "N", "D">>, <<"I", "N", "G">>,
     <<"H", "E", "R">>, <<"H", "A", "T">>, <<"H", "I", "S">>,
     <<"T", "H", "A">>, <<"E", "R", "E">>, <<"F", "O", "R">>,
     <<"E", "N", "T">>, <<"I", "O", "N">>, <<"T", "E", "R">>,
     <<"W", "A", "S">>, <<"Y", "O", "U">>, <<"I", "T", "H">>,
     <<"V", "E", "R">>, <<"A", "L", "L">>, <<"W", "I", "T">>,
     <<"T", "H", "I">>, <<"T", "I", "O">>}

COMMON_QUADGRAMS ==
    {<<"T", "I", "O", "N">>, <<"T", "H", "A", "T">>,
     <<"T", "H", "E", "R">>, <<"W", "I", "T", "H">>,
     <<"M", "E", "N", "T">>, <<"I", "O", "N", "S">>,
     <<"T", "H", "E", "S">>, <<"A", "T", "I", "O">>,
     <<"F", "T", "H", "E">>, <<"D", "T", "H", "E">>,
     <<"A", "N", "D", "T">>, <<"I", "N", "T", "H">>,
     <<"H", "E", "R", "E">>, <<"S", "T", "H", "E">>,
     <<"O", "T", "H", "E">>}

COMMON_WORDS ==
    {<<"A">>, <<"A", "B", "L", "E">>, <<"A", "B", "O", "V", "E">>,
     <<"A", "C", "R", "O", "S", "S">>, <<"A", "D", "D">>,
     <<"A", "G", "A", "I", "N">>, <<"A", "G", "A", "I", "N", "S", "T">>,
     <<"A", "G", "E">>, <<"A", "G", "O">>, <<"A", "I", "R">>,
     <<"A", "L", "G", "O", "R", "I", "T", "H", "M">>, <<"A", "L", "L">>,
     <<"A", "L", "M", "O", "S", "T">>, <<"A", "L", "O", "N", "G">>,
     <<"A", "L", "S", "O">>, <<"A", "L", "W", "A", "Y", "S">>,
     <<"A", "M", "E", "R", "I", "C", "A">>, <<"A", "M", "O", "N", "G">>,
     <<"A", "N">>, <<"A", "N", "D">>, <<"A", "N", "I", "M", "A", "L">>,
     <<"A", "N", "S", "W", "E", "R">>, <<"A", "N", "Y">>,
     <<"A", "R", "E", "A">>, <<"A", "R", "O", "U", "N", "D">>,
     <<"A", "S">>, <<"A", "S", "K", "E", "D">>, <<"A", "T">>,
     <<"A", "T", "T", "A", "C", "K">>, <<"A", "W", "A", "Y">>,
     <<"B", "A", "L", "L">>, <<"B", "E">>,
     <<"B", "E", "C", "O", "M", "E">>, <<"B", "E", "D">>,
     <<"B", "E", "E", "N">>, <<"B", "E", "F", "O", "R", "E">>,
     <<"B", "E", "G", "A", "N">>, <<"B", "E", "G", "I", "N">>,
     <<"B", "E", "I", "N", "G">>, <<"B", "E", "L", "O", "W">>,
     <<"B", "E", "S", "T">>, <<"B", "E", "T", "T", "E", "R">>,
     <<"B", "E", "T", "W", "E", "E", "N">>, <<"B", "I", "R", "D", "S">>,
     <<"B", "L", "A", "C", "K">>, <<"B", "L", "U", "E">>,
     <<"B", "O", "A", "T">>, <<"B", "O", "D", "Y">>,
     <<"B", "O", "O", "K">>, <<"B", "O", "T", "H">>, <<"B", "O", "Y">>,
     <<"B", "R", "I", "N", "G">>, <<"B", "R", "O", "U", "G", "H", "T">>,
     <<"B", "R", "O", "W", "N">>, <<"B", "U", "I", "L", "T">>,
     <<"B", "U", "S", "Y">>, <<"B", "U", "T">>, <<"B", "Y">>,
     <<"C", "A", "L", "L">>, <<"C", "A", "M", "E">>, <<"C", "A", "N">>,
     <<"C", "A", "N", "N", "O", "T">>, <<"C", "A", "R">>,
     <<"C", "A", "R", "R", "Y">>, <<"C", "H", "A", "N", "G", "E">>,
     <<"C", "H", "E", "C", "K">>,
     <<"C", "H", "I", "L", "D", "R", "E", "N">>,
     <<"C", "I", "P", "H", "E", "R">>, <<"C", "I", "R", "C", "L", "E">>,
     <<"C", "I", "T", "Y">>, <<"C", "L", "O", "S", "E">>,
     <<"C", "O", "D", "E">>, <<"C", "O", "L", "D">>,
     <<"C", "O", "L", "O", "R">>, <<"C", "O", "M", "E">>,
     <<"C", "O", "M", "M", "O", "N">>,
     <<"C", "O", "M", "P", "L", "E", "T", "E">>,
     <<"C", "O", "M", "P", "U", "T", "E", "R">>,
     <<"C", "O", "U", "L", "D">>, <<"C", "O", "U", "N", "T", "R", "Y">>,
     <<"C", "O", "U", "R", "S", "E">>, <<"C", "O", "V", "E", "R">>,
     <<"C", "O", "V", "E", "R", "E", "D">>, <<"C", "R", "I", "E", "D">>,
     <<"C", "U", "T">>, <<"D", "A", "R", "K">>, <<"D", "A", "T", "A">>,
     <<"D", "A", "Y">>, <<"D", "E", "C", "I", "D", "E">>,
     <<"D", "E", "C", "R", "Y", "P", "T">>, <<"D", "E", "E", "P">>,
     <<"D", "I", "D">>, <<"D", "I", "D", "N", "T">>,
     <<"D", "I", "F", "F", "E", "R", "E", "N", "T">>, <<"D", "O">>,
     <<"D", "O", "G">>, <<"D", "O", "N", "T">>, <<"D", "O", "O", "R">>,
     <<"D", "O", "W", "N">>, <<"D", "R", "A", "W">>, <<"D", "R", "Y">>,
     <<"D", "U", "R", "I", "N", "G">>, <<"E", "A", "C", "H">>,
     <<"E", "A", "R", "L", "Y">>, <<"E", "A", "R", "T", "H">>,
     <<"E", "A", "S", "T">>, <<"E", "A", "S", "Y">>, <<"E", "A", "T">>,
     <<"E", "N", "C", "R", "Y", "P", "T">>, <<"E", "N", "D">>,
     <<"E", "N", "O", "U", "G", "H">>, <<"E", "V", "E", "R">>,
     <<"E", "V", "E", "R", "Y">>, <<"E", "X", "A", "M", "P", "L", "E">>,
     <<"E", "Y", "E">>, <<"F", "A", "C", "E">>, <<"F", "A", "L", "L">>,
     <<"F", "A", "M", "I", "L", "Y">>, <<"F", "A", "R">>,
     <<"F", "A", "R", "M">>, <<"F", "A", "S", "T">>,
     <<"F", "A", "T", "H", "E", "R">>, <<"F", "E", "E", "T">>,
     <<"F", "E", "W">>, <<"F", "I", "G", "U", "R", "E">>,
     <<"F", "I", "L", "L">>, <<"F", "I", "N", "D">>,
     <<"F", "I", "N", "E">>, <<"F", "I", "S", "H">>,
     <<"F", "I", "V", "E">>, <<"F", "O", "L", "L", "O", "W">>,
     <<"F", "O", "O", "D">>, <<"F", "O", "O", "T">>, <<"F", "O", "R">>,
     <<"F", "O", "R", "C", "E">>, <<"F", "O", "R", "M">>,
     <<"F", "O", "U", "N", "D">>, <<"F", "O", "U", "R">>,
     <<"F", "O", "X">>, <<"F", "R", "I", "E", "N", "D", "S">>,
     <<"F", "R", "O", "M">>, <<"F", "U", "L", "L">>,
     <<"G", "A", "M", "E">>, <<"G", "E", "T">>, <<"G", "I", "R", "L">>,
     <<"G", "I", "V", "E">>, <<"G", "O">>, <<"G", "O", "L", "D">>,
     <<"G", "O", "O", "D">>, <<"G", "O", "T">>,
     <<"G", "R", "E", "A", "T">>, <<"G", "R", "O", "U", "N", "D">>,
     <<"G", "R", "O", "U", "P">>, <<"G", "R", "O", "W">>,
     <<"H", "A", "N", "D">>, <<"H", "A", "P", "P", "E", "N", "E", "D">>,
     <<"H", "A", "R", "D">>, <<"H", "A", "V", "E">>, <<"H", "E">>,
     <<"H", "E", "A", "D">>, <<"H", "E", "A", "R">>,
     <<"H", "E", "A", "R", "D">>, <<"H", "E", "A", "T">>,
     <<"H", "E", "A", "V", "Y">>, <<"H", "E", "L", "P">>,
     <<"H", "E", "R">>, <<"H", "I", "G", "H">>, <<"H", "I", "M">>,
     <<"H", "I", "M", "S", "E", "L", "F">>, <<"H", "I", "S">>,
     <<"H", "O", "L", "D">>, <<"H", "O", "M", "E">>,
     <<"H", "O", "R", "S", "E">>, <<"H", "O", "T">>,
     <<"H", "O", "U", "R", "S">>, <<"H", "O", "U", "S", "E">>,
     <<"H", "O", "W", "E", "V", "E", "R">>,
     <<"H", "U", "N", "D", "R", "E", "D">>, <<"I">>,
     <<"I", "D", "E", "A">>, <<"I", "F">>, <<"I", "L", "L">>,
     <<"I", "M", "P", "O", "R", "T", "A", "N", "T">>, <<"I", "N">>,
     <<"I", "N", "C", "L", "U", "D", "E">>,
     <<"I", "N", "D", "I", "A", "N">>, <<"I", "S", "L", "A", "N", "D">>,
     <<"I", "T">>, <<"I", "T", "S">>, <<"J", "U", "M", "P", "S">>,
     <<"K", "E", "E", "P">>, <<"K", "E", "Y">>, <<"K", "I", "N", "D">>,
     <<"K", "I", "N", "G">>, <<"K", "N", "E", "W">>,
     <<"K", "N", "O", "W">>, <<"L", "A", "N", "D">>,
     <<"L", "A", "N", "G", "U", "A", "G", "E">>, <<"L", "A", "S", "T">>,
     <<"L", "A", "T", "E", "R">>, <<"L", "A", "U", "G", "H">>,
     <<"L", "A", "Z", "Y">>, <<"L", "E", "A", "R", "N">>,
     <<"L", "E", "A", "V", "E">>, <<"L", "E", "F", "T">>,
     <<"L", "E", "T">>, <<"L", "E", "T", "T", "E", "R">>,
     <<"L", "I", "F", "E">>, <<"L", "I", "G", "H", "T">>,
     <<"L", "I", "N", "E">>, <<"L", "I", "S", "T">>,
     <<"L", "I", "S", "T", "E", "N">>, <<"L", "O", "N", "G">>,
     <<"L", "O", "O", "K">>, <<"L", "O", "W">>, <<"M", "A", "K", "E">>,
     <<"M", "A", "N">>, <<"M", "A", "P">>, <<"M", "A", "R", "K">>,
     <<"M", "A", "T", "E", "R", "I", "A", "L">>, <<"M", "E", "A", "N">>,
     <<"M", "E", "A", "S", "U", "R", "E">>, <<"M", "E", "N">>,
     <<"M", "E", "S", "S", "A", "G", "E">>,
     <<"M", "E", "T", "H", "O", "D">>, <<"M", "I", "G", "H", "T">>,
     <<"M", "I", "L", "E">>, <<"M", "I", "S", "S">>,
     <<"M", "O", "N", "E", "Y">>, <<"M", "O", "O", "N">>,
     <<"M", "O", "R", "N", "I", "N", "G">>,
     <<"M", "O", "T", "H", "E", "R">>,
     <<"M", "O", "U", "N", "T", "A", "I", "N">>, <<"M", "O", "V", "E">>,
     <<"M", "U", "C", "H">>, <<"M", "U", "S", "I", "C">>, <<"M", "Y">>,
     <<"N", "E", "A", "R">>, <<"N", "E", "E", "D">>,
     <<"N", "E", "V", "E", "R">>, <<"N", "E", "W">>,
     <<"N", "E", "X", "T">>, <<"N", "I", "G", "H", "T">>,
     <<"N", "O", "R", "T", "H">>, <<"N", "O", "T">>,
     <<"N", "O", "T", "H", "I", "N", "G">>,
     <<"N", "O", "T", "I", "C", "E">>, <<"N", "O", "W">>,
     <<"N", "U", "M", "E", "R", "A", "L">>,
     <<"O", "B", "J", "E", "C", "T">>, <<"O", "F">>, <<"O", "F", "F">>,
     <<"O", "F", "T", "E", "N">>, <<"O", "I", "L">>, <<"O", "L", "D">>,
     <<"O", "N">>, <<"O", "N", "C", "E">>, <<"O", "N", "E">>,
     <<"O", "P", "E", "N">>, <<"O", "R">>, <<"O", "R", "D", "E", "R">>,
     <<"O", "U", "T">>, <<"O", "V", "E", "R">>, <<"O", "W", "N">>,
     <<"P", "A", "G", "E">>, <<"P", "A", "I", "R">>,
     <<"P", "A", "P", "E", "R">>, <<"P", "A", "S", "S", "E", "D">>,
     <<"P", "A", "T", "T", "E", "R", "N">>,
     <<"P", "E", "O", "P", "L", "E">>,
     <<"P", "E", "R", "H", "A", "P", "S">>,
     <<"P", "I", "C", "T", "U", "R", "E">>, <<"P", "I", "E", "C", "E">>,
     <<"P", "L", "A", "C", "E">>, <<"P", "L", "A", "N">>,
     <<"P", "L", "A", "N", "E">>, <<"P", "L", "A", "N", "T">>,
     <<"P", "L", "A", "Y">>, <<"P", "O", "I", "N", "T">>,
     <<"P", "O", "S", "S", "I", "B", "L", "E">>,
     <<"P", "O", "W", "E", "R">>, <<"P", "R", "O", "B", "L", "E", "M">>,
     <<"P", "R", "O", "C", "E", "S", "S">>,
     <<"P", "R", "O", "D", "U", "C", "T", "S">>,
     <<"P", "R", "O", "G", "R", "A", "M">>,
     <<"P", "U", "L", "L", "E", "D">>, <<"P", "U", "T">>,
     <<"Q", "U", "E", "S", "T", "I", "O", "N">>,
     <<"Q", "U", "E", "S", "T", "I", "O", "N", "S">>,
     <<"Q", "U", "I", "C", "K">>, <<"R", "A", "N">>,
     <<"R", "E", "A", "C", "H", "E", "D">>, <<"R", "E", "A", "D">>,
     <<"R", "E", "A", "L">>, <<"R", "E", "C", "O", "R", "D">>,
     <<"R", "E", "D">>, <<"R", "E", "M", "E", "M", "B", "E", "R">>,
     <<"R", "E", "S", "U", "L", "T">>, <<"R", "I", "G", "H", "T">>,
     <<"R", "I", "V", "E", "R">>, <<"R", "O", "C", "K">>,
     <<"R", "O", "O", "M">>, <<"R", "U", "N">>, <<"S", "A", "I", "D">>,
     <<"S", "A", "M", "E">>, <<"S", "A", "W">>, <<"S", "A", "Y">>,
     <<"S", "C", "H", "O", "O", "L">>, <<"S", "E", "A">>,
     <<"S", "E", "C", "O", "N", "D">>,
     <<"S", "E", "C", "U", "R", "I", "T", "Y">>, <<"S", "E", "E">>,
     <<"S", "E", "E", "M">>, <<"S", "E", "E", "N">>,
     <<"S", "E", "N", "T", "E", "N", "C", "E">>, <<"S", "E", "T">>,
     <<"S", "E", "V", "E", "R", "A", "L">>, <<"S", "H", "A", "P", "E">>,
     <<"S", "H", "E">>, <<"S", "H", "I", "P">>,
     <<"S", "H", "O", "R", "T">>, <<"S", "H", "O", "U", "L", "D">>,
     <<"S", "H", "O", "W">>, <<"S", "I", "D", "E">>,
     <<"S", "I", "N", "C", "E">>, <<"S", "I", "N", "G">>,
     <<"S", "I", "T">>, <<"S", "I", "X">>, <<"S", "I", "Z", "E">>,
     <<"S", "L", "O", "W", "L", "Y">>, <<"S", "M", "A", "L", "L">>,
     <<"S", "N", "O", "W">>, <<"S", "O">>,
     <<"S", "O", "M", "E", "T", "H", "I", "N", "G">>,
     <<"S", "O", "M", "E", "T", "I", "M", "E", "S">>,
     <<"S", "O", "N", "G">>, <<"S", "O", "O", "N">>,
     <<"S", "O", "U", "T", "H">>, <<"S", "P", "A", "C", "E">>,
     <<"S", "P", "E", "C", "I", "A", "L">>, <<"S", "P", "E", "L", "L">>,
     <<"S", "T", "A", "N", "D">>, <<"S", "T", "A", "R", "T">>,
     <<"S", "T", "A", "T", "E">>, <<"S", "T", "A", "Y">>,
     <<"S", "T", "E", "P">>, <<"S", "T", "I", "L", "L">>,
     <<"S", "T", "O", "P">>, <<"S", "T", "O", "R", "Y">>,
     <<"S", "T", "U", "D", "Y">>, <<"S", "U", "N">>,
     <<"S", "U", "R", "E">>, <<"S", "U", "R", "F", "A", "C", "E">>,
     <<"S", "Y", "S", "T", "E", "M">>, <<"T", "A", "B", "L", "E">>,
     <<"T", "A", "K", "E">>, <<"T", "A", "L", "K">>,
     <<"T", "E", "L", "L">>, <<"T", "E", "S", "T">>,
     <<"T", "E", "X", "T">>, <<"T", "H", "A", "N">>,
     <<"T", "H", "A", "T">>, <<"T", "H", "E">>,
     <<"T", "H", "E", "I", "R">>, <<"T", "H", "E", "M">>,
     <<"T", "H", "E", "R", "E">>, <<"T", "H", "E", "Y">>,
     <<"T", "H", "I", "N", "G">>, <<"T", "H", "I", "N", "K">>,
     <<"T", "H", "I", "S">>, <<"T", "H", "O", "S", "E">>,
     <<"T", "H", "O", "U", "G", "H", "T">>,
     <<"T", "H", "O", "U", "S", "A", "N", "D">>,
     <<"T", "H", "R", "E", "E">>, <<"T", "H", "R", "O", "U", "G", "H">>,
     <<"T", "I", "M", "E">>, <<"T", "O">>, <<"T", "O", "D", "A", "Y">>,
     <<"T", "O", "G", "E", "T", "H", "E", "R">>, <<"T", "O", "L", "D">>,
     <<"T", "O", "O">>, <<"T", "O", "O", "K">>, <<"T", "O", "P">>,
     <<"T", "O", "W", "A", "R", "D">>, <<"T", "O", "W", "N">>,
     <<"T", "R", "E", "E">>, <<"T", "R", "U", "E">>, <<"T", "R", "Y">>,
     <<"U", "N", "D", "E", "R">>, <<"U", "N", "I", "T">>,
     <<"U", "N", "T", "I", "L">>, <<"U", "P">>, <<"U", "S", "E">>,
     <<"U", "S", "U", "A", "L", "L", "Y">>, <<"V", "O", "I", "C", "E">>,
     <<"V", "O", "W", "E", "L">>, <<"W", "A", "L", "K">>,
     <<"W", "A", "N", "T">>, <<"W", "A", "R">>,
     <<"W", "A", "T", "C", "H">>, <<"W", "A", "T", "E", "R">>,
     <<"W", "A", "V", "E", "S">>, <<"W", "A", "Y">>, <<"W", "E">>,
     <<"W", "E", "I", "G", "H", "T">>, <<"W", "E", "N", "T">>,
     <<"W", "H", "A", "T">>, <<"W", "H", "E", "E", "L">>,
     <<"W", "H", "E", "N">>, <<"W", "H", "E", "R", "E">>,
     <<"W", "H", "I", "C", "H">>, <<"W", "H", "I", "L", "E">>,
     <<"W", "H", "I", "T", "E">>, <<"W", "H", "O">>,
     <<"W", "H", "O", "L", "E">>, <<"W", "H", "Y">>,
     <<"W", "I", "L", "L">>, <<"W", "I", "N", "D">>,
     <<"W", "I", "T", "H">>, <<"W", "I", "T", "H", "O", "U", "T">>,
     <<"W", "O", "N", "D", "E", "R">>, <<"W", "O", "R", "K">>,
     <<"W", "O", "R", "L", "D">>, <<"W", "O", "U", "L", "D">>,
     <<"W", "R", "I", "T", "E">>, <<"Y", "E", "A", "R">>,
     <<"Y", "E", "S">>, <<"Y", "E", "T">>, <<"Y", "O", "U">>,
     <<"Y", "O", "U", "N", "G">>}

\* float('inf')
Infinity == -1

\* text.upper()
UpperStr(s) == [i \in 1..Len(s) |-> Upper(s[i])]

\* len([c for c in text if c.isalpha()])
AlphaCount(s) == Cardinality({i \in 1..Len(s) : IsAlphaChar(s[i])})

\* s.count(c): the entry of Counter for c.
CountOf(s, c) == Cardinality({i \in 1..Len(s) : s[i] = c})

\* One letter's ((observed - expected) ** 2) / expected, in thousandths;
\* f is the letter's frequency, and expected = f * text_length / 100000.
ChiTerm(observed, f, text_length) ==
    LET den == f * text_length
        d == 1000 * observed - (den \div 100)
    IN IF den > 0
       THEN ((d * d) \div den) * 100 + (((d * d) % den) * 100) \div den
       ELSE 0

chi_squared(txt) ==
    IF txt = <<>> THEN Infinity
    ELSE LET t == UpperStr(txt)
             text_length == AlphaCount(t)
             chi_sq[l \in 0..26] ==
                IF l = 0 THEN 0
                ELSE chi_sq[l - 1]
                     + ChiTerm(CountOf(t, UpperLetters[l]), ENGLISH_FREQ[l], text_length)
         IN IF text_length = 0 THEN Infinity ELSE chi_sq[26]

\* max(0, 1 - chi_sq / 500), in millionths.
score_letter_frequency(txt) ==
    LET chi_sq == chi_squared(txt)
    IN IF chi_sq = Infinity \/ 2 * chi_sq >= 1000000 THEN 0
       ELSE 1000000 - 2 * chi_sq

\* The fraction of the windows of n letters of text that are in table, in
\* millionths (score_bigrams, score_trigrams, score_quadgrams).
score_ngrams(txt, n, table) ==
    IF Len(txt) < n THEN 0
    ELSE LET t == UpperStr(txt)
             windows == {i \in 1..(Len(t) - n + 1) :
                            \A j \in 0..(n - 1) : IsAlphaChar(t[i + j])}
             hits == {i \in windows : SubSeq(t, i, i + n - 1) \in table}
         IN IF windows = {} THEN 0
            ELSE (Cardinality(hits) * 1000000) \div Cardinality(windows)

score_bigrams(txt) == score_ngrams(txt, 2, COMMON_BIGRAMS)

score_trigrams(txt) == score_ngrams(txt, 3, COMMON_TRIGRAMS)

score_quadgrams(txt) == score_ngrams(txt, 4, COMMON_QUADGRAMS)

\* score_text without the test of line 165.
score_text_unguarded(txt) ==
    LET freq_score == (score_letter_frequency(txt) * 30) \div 1000
        bigram_score == (score_bigrams(txt) * 25) \div 1000
        trigram_score == (score_trigrams(txt) * 25) \div 1000
        quadgram_score == (score_quadgrams(txt) * 20) \div 1000
    IN freq_score + bigram_score + trigram_score + quadgram_score

\* In thousandths of a point.
score_text(txt) ==
    IF Len(txt) < 2 THEN 0
    ELSE LET freq_score == (score_letter_frequency(txt) * 30) \div 1000
             bigram_score == (score_bigrams(txt) * 25) \div 1000
             trigram_score == (score_trigrams(txt) * 25) \div 1000
             quadgram_score == (score_quadgrams(txt) * 20) \div 1000
         IN freq_score + bigram_score + trigram_score + quadgram_score

Min(a, b) == IF a < b THEN a ELSE b

Max(a, b) == IF a > b THEN a ELSE b

\* base_score * (1 + dictionary_score * 0.5), capped at 150; dictionary_score
\* in millionths, the result in thousandths of a point.
score_with_dictionary(txt, dictionary_score) ==
    LET base_score == score_text(txt)
        combined_score == base_score + (base_score * (dictionary_score \div 1000)) \div 2000
    IN Min(combined_score, 150000)

\* -------------------------------------------------------------- dictionary
\* The (start, end) pairs of the words found, in the order the loops of
\* lines 100-104 append them.
find_words_in_text(txt, min_length) ==
    LET t == UpperStr(txt)
        IsWord(p) == SubSeq(t, p[1] + 1, p[2]) \in COMMON_WORDS
        ends(i) == LET lo == i + min_length
                       hi == Min(i + 15, Len(t) + 1)
                   IN [n \in 1..Max(0, hi - lo) |-> <<i, lo + n - 1>>]
    IN Join([i \in 1..Len(t) |-> SelectSeq(ends(i - 1), IsWord)])

\* found_words.sort(key=lambda x: x[2] - x[1], reverse=True): stable, the
\* longest first; one insertion puts w after every word at least as long.
RECURSIVE InsertByLength(_, _)
InsertByLength(sorted, w) ==
    IF sorted = <<>> THEN <<w>>
    ELSE IF Head(sorted)[2] - Head(sorted)[1] >= w[2] - w[1]
         THEN <<Head(sorted)>> \o InsertByLength(Tail(sorted), w)
         ELSE <<w>> \o sorted

RECURSIVE SortedByLength(_)
SortedByLength(s) ==
    IF s = <<>> THEN <<>>
    ELSE InsertByLength(SortedByLength(SubSeq(s, 1, Len(s) - 1)), s[Len(s)])

\* Lines 130-134: the positions covered, taking each word none of whose
\* positions is covered yet.
RECURSIVE Coverage(_, _)
Coverage(found_words, covered) ==
    IF found_words = <<>> THEN covered
    ELSE LET span == Head(found_words)[1]..(Head(found_words)[2] - 1)
         IN Coverage(Tail(found_words),
                     IF span \cap covered = {} THEN covered \cup span ELSE covered)

\* In millionths.
score_text_by_dictionary(txt) ==
    IF txt = <<>> THEN 0
    ELSE LET found_words == find_words_in_text(txt, 2)
         IN IF found_words = <<>> THEN 0
            ELSE (Cardinality(Coverage(SortedByLength(found_words), {})) * 1000000)
                    \div Len(txt)

\* attack.py evaluate_plaintext: the fitness every search uses.
evaluate_plaintext(plaintext) ==
    score_with_dictionary(plaintext, score_text_by_dictionary(plaintext))

\* ------------------------------------------------------------------ attack
\* itertools.permutations(items): every ordering of items, in the
\* lexicographic order of the positions taken.
RECURSIVE permutations(_)
permutations(items) ==
    IF items = <<>> THEN << <<>> >>
    ELSE Join([i \in 1..Len(items) |->
                LET rest == SubSeq(items, 1, i - 1) \o SubSeq(items, i + 1, Len(items))
                    tails == permutations(rest)
                IN [j \in 1..Len(tails) |-> <<items[i]>> \o tails[j]]])

\* Lines 35-36: the candidate keys of one length.
key_perms(n) ==
    LET digits == [i \in 1..n |-> DecStr(i)]
        perms == permutations(digits)
    IN [j \in 1..Len(perms) |-> Join(perms[j])]

\* Lines 41-48: the entry of a key that decrypts.
Candidate(ciphertext, k) ==
    LET plaintext == decrypt(ciphertext, k).val
        dict_score == score_text_by_dictionary(plaintext)
    IN [key |-> k, plaintext |-> plaintext,
        score |-> score_with_dictionary(plaintext, dict_score)]

\* Lines 39-58, one candidate: its entry, or nothing when decrypt raises.
TryKey(ciphertext, k) ==
    IF decrypt(ciphertext, k).err = "none" THEN <<Candidate(ciphertext, k)>>
    ELSE <<>>

\* Lines 35-58 for one key length.
BruteForLength(ciphertext, n) ==
    LET keys == key_perms(n)
    IN Join([j \in 1..Len(keys) |-> TryKey(ciphertext, keys[j])])

\* The elements of the set of numbers S, largest first.
RECURSIVE Descending(_)
Descending(S) ==
    IF S = {} THEN <<>>
    ELSE LET m == CHOOSE x \in S : \A y \in S : y <= x
         IN <<m>> \o Descending(S \ {m})

\* The order of entries reversed.
Reversed(entries) == [i \in 1..Len(entries) |-> entries[Len(entries) + 1 - i]]

\* The sort done as an ascending sort followed by reverse(): highest score
\* first, but entries of equal score in the reverse of the order they had.
SortAscendingThenReverse(entries) ==
    LET scores == Descending({entries[i].score : i \in 1..Len(entries)})
        WithScore(v) == LET Has(e) == e.score = v IN SelectSeq(entries, Has)
    IN Join([n \in 1..Len(scores) |-> Reversed(WithScore(scores[n]))])

\* list.sort(key=lambda x: x[2], reverse=True): by score, highest first,
\* entries of equal score in the order they had.
SortByScore(entries) ==
    LET scores == Descending({entries[i].score : i \in 1..Len(entries)})
        WithScore(v) == LET Has(e) == e.score = v IN SelectSeq(entries, Has)
    IN Join([n \in 1..Len(scores) |-> WithScore(scores[n])])

\* brute_force_attack with the key lengths tried from max_len down to 1.
brute_force_attack_longest_first(ciphertext, max_len) ==
    SortByScore(Join([n \in 1..max_len |-> BruteForLength(ciphertext, max_len + 1 - n)]))

brute_force_attack(ciphertext, max_len) ==
    SortByScore(Join([n \in 1..max_len |-> BruteForLength(ciphertext, n)]))

\* None, as the key and the plaintext of a result.
None == <<"None">>

\* Some orderings of 1..n: ascending, descending, rotated by one.
SamplePerms(n) ==
    {[i \in 1..n |-> i], [i \in 1..n |-> n + 1 - i], [i \in 1..n |-> (i % n) + 1]}

\* The keys generate_random_key(length) may return (those of SamplePerms).
generate_random_key(length) ==
    {Join([i \in 1..length |-> DecStr(p[i])]) : p \in SamplePerms(length)}

\* What hill_climbing_attack(ciphertext, length) may give its caller for
\* length >= 2: the error of the first decrypt (line 93) when the random key
\* is no valid key, else the best entry found, the entry of some key.
HillClimbOutcomes(ciphertext, length) ==
    {IF decrypt(ciphertext, k).err = "none" THEN Ok(Candidate(ciphertext, k))
     ELSE decrypt(ciphertext, k) : k \in generate_random_key(length)}

\* What genetic_algorithm_attack(ciphertext, length) may give its caller:
\* the error of the first decrypt (line 166), else the entry of a key of
\* score above 0, or (None, None, 0) when every key evaluated scored 0.
GeneticOutcomes(ciphertext, length) ==
    LET keys == generate_random_key(length)
    IN {IF decrypt(ciphertext, k).err # "none" THEN decrypt(ciphertext, k)
        ELSE IF Candidate(ciphertext, k).score > 0 THEN Ok(Candidate(ciphertext, k))
        ELSE Ok([key |-> None, plaintext |-> None, score |-> 0]) : k \in keys}

\* Line 283: brute force up to this key length.
BruteForceLimit == 7

\* Line 288: entries kept from brute force.
TopKept == 10

\* Lines 279-288 of smart_attack: all_results before the heuristics.
SmartBruteForce(ciphertext, min_len, max_len) ==
    IF min_len <= BruteForceLimit
    THEN LET brute_results == brute_force_attack(ciphertext, Min(BruteForceLimit, max_len))
         IN SubSeq(brute_results, 1, Min(TopKept, Len(brute_results)))
    ELSE <<>>

\* ------------------------------------------------------------------ inputs
SeqsUpTo(S, n) == UNION {[1..k -> S] : k \in 0..n}

\* Digits 0..MaxKeyLen and letters with a repeat up to case ("B", "b").
KeyAlphabet == {Digits[i + 1] : i \in 0..MaxKeyLen} \cup {"A", "B", "b"}

ShortKeys == SeqsUpTo(KeyAlphabet, MaxKeyLen)

\* "ABC...", "AJBC..." (first, last, then the rest) and "...CBA" of length n.
AscKeyword(n) == [i \in 1..n |-> UpperLetters[i]]

LeapKeyword(n) ==
    [i \in 1..n |-> IF i = 1 THEN UpperLetters[1]
                    ELSE IF i = 2 THEN UpperLetters[n]
                    ELSE UpperLetters[i - 1]]

DescKeyword(n) == [i \in 1..n |-> UpperLetters[n + 1 - i]]

LongKeywords(from) ==
    UNION {{AscKeyword(n), LeapKeyword(n), DescKeyword(n)} : n \in from..MaxKeywordLen}

\* ''.join(str(i) for i in 1..n), and the n digits "1234567890..." .
CountingKey(n) == Join([i \in 1..n |-> DecStr(i)])

DigitRun(n) == [i \in 1..n |-> Digits[(i % 10) + 1]]

LongDigitKeys == UNION {{CountingKey(n), DigitRun(n)} : n \in 1..MaxKeywordLen}

KeyInputs == ShortKeys \cup LongKeywords(1) \cup LongDigitKeys

InvalidKeySamples ==
    {<<>>, <<"0">>, <<"1", "1">>, <<"1", "3">>, <<"1", "A">>, <<"A", "1">>}

CipherKeys ==
    {k \in SeqsUpTo({Digits[i + 1] : i \in 1..MaxKeyLen} \cup {"A", "b"}, MaxKeyLen) :
        validate_key(k)}
    \cup LongKeywords(MaxKeywordLen - 1) \cup InvalidKeySamples

TextAlphabet == {"A", "B", Filler, " "}

Texts == SeqsUpTo(TextAlphabet, MaxTextLen)

\* No attack called: the attack variables at rest.
NoAttack ==
    /\ min_key_length = 0
    /\ max_key_length = 0
    /\ key_len = 0
    /\ results = Unset

\* No search is running.
NoSearch ==
    /\ current_key = <<>>
    /\ current_score = 0
    /\ best_key = <<>>
    /\ best_plaintext = <<>>
    /\ best_score = 0
    /\ no_improvement_count = 0
    /\ iteration = 0
    /\ max_iterations = 0
    /\ population = <<>>
    /\ population_size = 0
    /\ generation = 0
    /\ generations = 0
    /\ evaluated = -1

\* No recommendation, segmentation or random draw.
NoOther ==
    /\ recommendations = <<>>
    /\ num_recommendations = 0
    /\ max_word_length = 0
    /\ random_state = 0
    /\ seed = 0
    /\ draws = <<>>
    /\ all_lengths = <<>>

\* --------------------------------------------------- key codec, as a machine

InitKey ==
    /\ pc = "ready"
    /\ key \in KeyInputs
    /\ text = <<>>
    /\ keep_spaces = FALSE
    /\ valid = "unset"
    /\ normalized = Unset
    /\ renormalized = Unset
    /\ encrypted = Unset
    /\ decrypted = Unset
    /\ NoOther
    /\ NoAttack
    /\ NoSearch

ValidateKey ==
    /\ pc = "ready"
    /\ valid' = validate_key(key)
    /\ pc' = "validated"
    /\ UNCHANGED <<key, text, keep_spaces, normalized, renormalized, encrypted, decrypted>>
    /\ UNCHANGED attackVars
    /\ UNCHANGED otherVars
    /\ UNCHANGED searchVars

NormalizeKey ==
    /\ pc = "ready"
    /\ normalized' = normalize_key(key)
    /\ pc' = "normalized"
    /\ UNCHANGED <<key, text, keep_spaces, valid, renormalized, encrypted, decrypted>>
    /\ UNCHANGED attackVars
    /\ UNCHANGED otherVars
    /\ UNCHANGED searchVars

\* normalize_key on the string an earlier normalize_key returned.
RenormalizeKey ==
    /\ pc = "normalized"
    /\ normalized.err = "none"
    /\ renormalized' = normalize_key(normalized.val)
    /\ pc' = "renormalized"
    /\ UNCHANGED <<key, text, keep_spaces, valid, normalized, encrypted, decrypted>>
    /\ UNCHANGED attackVars
    /\ UNCHANGED otherVars
    /\ UNCHANGED searchVars

NextKey == ValidateKey \/ NormalizeKey \/ RenormalizeKey

SpecKey == InitKey /\ [][NextKey]_vars

\* ------------------------------------------------------ cipher, as a machine
Init ==
    /\ pc = "ready"
    /\ key \in CipherKeys
    /\ text \in Texts
    /\ keep_spaces \in BOOLEAN
    /\ valid = "unset"
    /\ normalized = Unset
    /\ renormalized = Unset
    /\ encrypted = Unset
    /\ decrypted = Unset
    /\ NoOther
    /\ NoAttack
    /\ NoSearch

\* normalized records encrypt's local numeric_key (line 70).
Encrypt ==
    /\ pc = "ready"
    /\ normalized' = normalize_key(key)
    /\ encrypted' = encrypt(text, key, keep_spaces)
    /\ pc' = "encrypted"
    /\ UNCHANGED <<key, text, keep_spaces, valid, renormalized, decrypted>>
    /\ UNCHANGED attackVars
    /\ UNCHANGED otherVars
    /\ UNCHANGED searchVars

\* decrypt on the ciphertext encrypt returned, with the same key.
DecryptCiphertext ==
    /\ pc = "encrypted"
    /\ encrypted.err = "none"
    /\ decrypted' = decrypt(encrypted.val, key)
    /\ pc' = "roundtrip"
    /\ UNCHANGED <<key, text, keep_spaces, valid, normalized, renormalized, encrypted>>
    /\ UNCHANGED attackVars
    /\ UNCHANGED otherVars
    /\ UNCHANGED searchVars

\* decrypt on the input text taken as a ciphertext; normalized records
\* decrypt's local numeric_key (line 120).
Decrypt ==
    /\ pc = "ready"
    /\ normalized' = normalize_key(key)
    /\ decrypted' = decrypt(text, key)
    /\ pc' = "decrypted"
    /\ UNCHANGED <<key, text, keep_spaces, valid, renormalized, encrypted>>
    /\ UNCHANGED attackVars
    /\ UNCHANGED otherVars
    /\ UNCHANGED searchVars

Next == Encrypt \/ DecryptCiphertext \/ Decrypt

Spec == Init /\ [][Next]_vars

\* ----------------------------------------------------- attacks, as a machine
Ciphertexts == SeqsUpTo({"A", "T", Filler}, MaxCipherLen)

\* The (min_key_length, max_key_length) smart_attack is called with: brute
\* force alone (from length 1 or 2), heuristics alone and, for the shortest
\* ciphertexts, both.
SmartRanges(ciphertext) ==
    {<<n, m>> : n \in 1..2, m \in 0..MaxBruteLen}
    \cup {<<BruteForceLimit + 1, m>> : m \in (BruteForceLimit + 1)..MaxSmartLen}
    \cup (IF ciphertext \in {<<>>, <<"A", "T">>}
          THEN {<<1, BruteForceLimit + 1>>, <<1, MaxSmartLen>>}
          ELSE {})

InitAttack ==
    /\ pc = "ready"
    /\ text \in Ciphertexts
    /\ key = <<>>
    /\ keep_spaces = FALSE
    /\ valid = "unset"
    /\ normalized = Unset
    /\ renormalized = Unset
    /\ encrypted = Unset
    /\ decrypted = Unset
    /\ NoOther
    /\ NoAttack
    /\ NoSearch

cipherVars == <<key, keep_spaces, valid, normalized, renormalized, encrypted, decrypted>>

BruteForceAttack ==
    /\ pc = "ready"
    /\ \E m \in 0..MaxBruteLen :
          /\ max_key_length' = m
          /\ results' = Ok(brute_force_attack(text, m))
    /\ pc' = "brute_done"
    /\ UNCHANGED <<text, min_key_length, key_len>>
    /\ UNCHANGED cipherVars
    /\ UNCHANGED otherVars
    /\ UNCHANGED searchVars

\* smart_attack, lines 279-288: the brute-force part.
SmartStart ==
    /\ pc = "ready"
    /\ \E r \in SmartRanges(text) :
          /\ min_key_length' = r[1]
          /\ max_key_length' = r[2]
          /\ results' = Ok(SmartBruteForce(text, r[1], r[2]))
          /\ key_len' = Max(BruteForceLimit + 1, r[1])
    /\ pc' = "smart_heuristics"
    /\ UNCHANGED text
    /\ UNCHANGED cipherVars
    /\ UNCHANGED otherVars
    /\ UNCHANGED searchVars

\* smart_attack, lines 292-306: one key length of the heuristics; an error
\* of hill_climbing_attack or genetic_algorithm_attack leaves smart_attack.
SmartHeuristics ==
    /\ pc = "smart_heuristics"
    /\ max_key_length > BruteForceLimit
    /\ key_len <= max_key_length
    /\ \E hc_result \in HillClimbOutcomes(text, key_len) :
          IF hc_result.err # "none"
          THEN /\ results' = hc_result
               /\ pc' = "smart_raised"
               /\ UNCHANGED key_len
          ELSE \E ga_result \in GeneticOutcomes(text, key_len) :
                  IF ga_result.err # "none"
                  THEN /\ results' = ga_result
                       /\ pc' = "smart_raised"
                       /\ UNCHANGED key_len
                  ELSE /\ results' = Ok(results.val \o <<hc_result.val, ga_result.val>>)
                       /\ key_len' = key_len + 1
                       /\ UNCHANGED pc
    /\ UNCHANGED <<text, min_key_length, max_key_length>>
    /\ UNCHANGED cipherVars
    /\ UNCHANGED otherVars
    /\ UNCHANGED searchVars

\* smart_attack, lines 308-311.
SmartSort ==
    /\ pc = "smart_heuristics"
    /\ max_key_length <= BruteForceLimit \/ key_len > max_key_length
    /\ results' = Ok(SortByScore(results.val))
    /\ pc' = "smart_done"
    /\ UNCHANGED <<text, min_key_length, max_key_length, key_len>>
    /\ UNCHANGED cipherVars
    /\ UNCHANGED otherVars
    /\ UNCHANGED searchVars

NextAttack == BruteForceAttack \/ SmartStart \/ SmartHeuristics \/ SmartSort

SpecAttack == InitAttack /\ [][NextAttack]_vars

\* ------------------------------- the brute-force loop, one candidate at a time
\* The loops of lines 33 and 38 reach every key of key_perms(key_length) for
\* every key_length up to max_key_length, whatever the earlier candidates
\* gave (line 58 continues).  The candidates drawn: every key of key_perms
\* up to MaxBruteLen, and those of SamplePerms up to MaxCandidateLen.
CandidateKeys(n) ==
    generate_random_key(n)
    \cup (IF n <= MaxBruteLen THEN {key_perms(n)[j] : j \in 1..Len(key_perms(n))} ELSE {})

InitCandidate ==
    /\ pc = "ready"
    /\ text \in Ciphertexts
    /\ key_len \in 1..MaxCandidateLen
    /\ key \in CandidateKeys(key_len)
    /\ keep_spaces = FALSE
    /\ valid = "unset"
    /\ normalized = Unset
    /\ renormalized = Unset
    /\ encrypted = Unset
    /\ decrypted = Unset
    /\ NoOther
    /\ min_key_length = 0
    /\ max_key_length = 0
    /\ results = Unset
    /\ NoSearch

\* Lines 39-58 for the candidate key: results holds what it appended.
TryCandidate ==
    /\ pc = "ready"
    /\ results' = Ok(TryKey(text, key))
    /\ pc' = "tried"
    /\ UNCHANGED <<text, min_key_length, max_key_length, key_len>>
    /\ UNCHANGED cipherVars
    /\ UNCHANGED otherVars
    /\ UNCHANGED searchVars

NextCandidate == TryCandidate

SpecCandidate == InitCandidate /\ [][NextCandidate]_vars

\* --------------------------------------------- hill_climbing_attack, by step
\* Line 101: non-improving neighbors in a row before a restart.
MaxNoImprovement == 100

\* Largest max_iterations: one restart and an iteration after it.
MaxIterations == 101

\* The key lengths the step machines are run with: those with one, two and
\* six keys, and the first whose ranks take two digits.
SearchKeyLengths == {1, 2, 3, 10}

\* The ciphertexts the step machines are run on.
SearchCiphertexts == {<<>>, <<"T", "A">>, <<"T", "A", Filler>>}

\* random.sample(range(len(key)), 2) of lines 217 and 229 raises ValueError
\* when the key has fewer than 2 characters.
SampleError == Raise("SampleLargerThanPopulation")

\* swap_random_positions(k), len(k) >= 2: the keys it may return.
swap_random_positions(k) ==
    {[n \in 1..Len(k) |-> IF n = i THEN k[j] ELSE IF n = j THEN k[i] ELSE k[n]] :
        i \in 1..Len(k), j \in 1..Len(k)} \ {k}

\* mutate_key(k): the same.
mutate_key(k) == swap_random_positions(k)

hillVars == <<current_key, current_score, no_improvement_count, iteration, max_iterations>>
bestVars == <<best_key, best_plaintext, best_score>>
gaVars == <<population, population_size, generation, generations>>

InitHill ==
    /\ pc = "hill_ready"
    /\ text \in SearchCiphertexts
    /\ key_len \in SearchKeyLengths
    /\ max_iterations \in {0, 1, MaxIterations}
    /\ key = <<>>
    /\ keep_spaces = FALSE
    /\ valid = "unset"
    /\ normalized = Unset
    /\ renormalized = Unset
    /\ encrypted = Unset
    /\ decrypted = Unset
    /\ NoOther
    /\ min_key_length = 0
    /\ max_key_length = 0
    /\ results = Unset
    /\ current_key = <<>>
    /\ current_score = 0
    /\ best_key = <<>>
    /\ best_plaintext = <<>>
    /\ best_score = 0
    /\ no_improvement_count = 0
    /\ iteration = 0
    /\ population = <<>>
    /\ population_size = 0
    /\ generation = 0
    /\ generations = 0
    /\ evaluated = -1

\* Lines 92-101: the random initial key; its decrypt is not guarded.
HillStart ==
    /\ pc = "hill_ready"
    /\ \E k \in generate_random_key(key_len) :
          LET d == decrypt(text, k)
              score == evaluate_plaintext(d.val)
          IN IF d.err # "none"
             THEN /\ results' = d
                  /\ pc' = "hill_raised"
                  /\ UNCHANGED <<current_key, current_score, no_improvement_count,
                                 iteration, bestVars, evaluated>>
             ELSE /\ current_key' = k
                  /\ current_score' = score
                  /\ best_key' = k
                  /\ best_plaintext' = d.val
                  /\ best_score' = score
                  /\ no_improvement_count' = 0
                  /\ iteration' = 0
                  /\ evaluated' = score
                  /\ pc' = "hill_loop"
                  /\ UNCHANGED results
    /\ UNCHANGED <<text, min_key_length, max_key_length, key_len, max_iterations>>
    /\ UNCHANGED gaVars
    /\ UNCHANGED cipherVars
    /\ UNCHANGED otherVars

\* Lines 103-131: one iteration.
HillStep ==
    /\ pc = "hill_loop"
    /\ iteration < max_iterations
    /\ IF Len(current_key) < 2
       THEN /\ results' = SampleError
            /\ pc' = "hill_raised"
            /\ UNCHANGED <<current_key, current_score, no_improvement_count,
                           iteration, bestVars, evaluated>>
       ELSE \E neighbor_key \in swap_random_positions(current_key) :
               LET d == decrypt(text, neighbor_key)
                   neighbor_score == evaluate_plaintext(d.val)
               IN IF d.err # "none"
                  THEN /\ results' = d
                       /\ pc' = "hill_raised"
                       /\ UNCHANGED <<current_key, current_score, no_improvement_count,
                                      iteration, bestVars, evaluated>>
                  ELSE /\ iteration' = iteration + 1
                       /\ UNCHANGED <<pc, results>>
                       /\ IF neighbor_score > current_score
                          THEN /\ current_key' = neighbor_key
                               /\ current_score' = neighbor_score
                               /\ no_improvement_count' = 0
                               /\ evaluated' = Max(evaluated, neighbor_score)
                               /\ IF neighbor_score > best_score
                                  THEN /\ best_key' = neighbor_key
                                       /\ best_plaintext' = d.val
                                       /\ best_score' = neighbor_score
                                  ELSE UNCHANGED bestVars
                          ELSE IF no_improvement_count + 1 >= MaxNoImprovement
                          THEN \E fresh \in generate_random_key(key_len) :
                                  LET fresh_score == evaluate_plaintext(decrypt(text, fresh).val)
                                  IN /\ current_key' = fresh
                                     /\ current_score' = fresh_score
                                     /\ no_improvement_count' = 0
                                     /\ evaluated' = Max(evaluated, Max(neighbor_score, fresh_score))
                                     /\ UNCHANGED bestVars
                          ELSE /\ no_improvement_count' = no_improvement_count + 1
                               /\ evaluated' = Max(evaluated, neighbor_score)
                               /\ UNCHANGED <<current_key, current_score, bestVars>>
    /\ UNCHANGED <<text, min_key_length, max_key_length, key_len, max_iterations>>
    /\ UNCHANGED gaVars
    /\ UNCHANGED cipherVars
    /\ UNCHANGED otherVars

\* Line 135.
HillReturn ==
    /\ pc = "hill_loop"
    /\ iteration = max_iterations
    /\ results' = Ok([key |-> best_key, plaintext |-> best_plaintext, score |-> best_score])
    /\ pc' = "hill_done"
    /\ UNCHANGED <<text, min_key_length, max_key_length, key_len>>
    /\ UNCHANGED <<hillVars, bestVars, evaluated>>
    /\ UNCHANGED gaVars
    /\ UNCHANGED cipherVars
    /\ UNCHANGED otherVars

NextHill == HillStart \/ HillStep \/ HillReturn

SpecHill == InitHill /\ [][NextHill]_vars

\* ---------------------------------- genetic_algorithm_attack, by generation
\* Largest population_size and generations.
MaxPopulation == 3
MaxGenerations == 2

\* random.choice of line 185 raises IndexError on an empty list, and
\* key2[parent2_pos] of line 240 past the end of key2.
IndexError == Raise("IndexError")

\* Line 240 without its while loop: parent2_pos as it is.
NoSkip(child, key2, parent2_pos) ==
    IF parent2_pos >= Len(key2) THEN -1 ELSE parent2_pos

\* Line 240: parent2_pos after the while loop, -1 when it runs past key2.
RECURSIVE SkipPlaced(_, _, _)
SkipPlaced(child, key2, parent2_pos) ==
    IF parent2_pos >= Len(key2) THEN -1
    ELSE IF \E n \in 1..Len(child) : child[n] = key2[parent2_pos + 1]
    THEN SkipPlaced(child, key2, parent2_pos + 1)
    ELSE parent2_pos

\* Lines 239-243: the positions left (0-based), filled in parent2's order.
RECURSIVE FillRemaining(_, _, _, _)
FillRemaining(child, key2, positions, parent2_pos) ==
    IF positions = <<>> THEN Ok(child)
    ELSE LET pos == SkipPlaced(child, key2, parent2_pos)
         IN IF pos = -1 THEN IndexError
            ELSE FillRemaining([child EXCEPT ![Head(positions) + 1] = key2[pos + 1]],
                               key2, Tail(positions), pos + 1)

\* Lines 232-245 for the crossover points 0 <= point1 < point2 < length.
CrossoverAt(key1, key2, point1, point2) ==
    LET length == Len(key1)
        child == [n \in 1..length |->
                    IF point1 < n /\ n <= point2 THEN key1[n] ELSE "0"]
        positions == [n \in 1..point1 |-> n - 1]
                     \o [n \in 1..(length - point2) |-> point2 + n - 1]
    IN FillRemaining(child, key2, positions, 0)

\* crossover_keys(key1, key2): what it may return or raise.
crossover_keys(key1, key2) ==
    IF Len(key1) < 2 THEN {SampleError}
    ELSE LET points == {q \in (0..(Len(key1) - 1)) \X (0..(Len(key1) - 1)) : q[1] < q[2]}
         IN {CrossoverAt(key1, key2, q[1], q[2]) : q \in points}

\* Lines 170-173 without the comparison: the last individual evaluated.
LastEvaluated(fitness_scores, n, best) ==
    IF n > Len(fitness_scores) THEN best ELSE fitness_scores[Len(fitness_scores)]

\* Lines 166-173: best_key, best_plaintext and best_score after the
\* individuals of fitness_scores from the n-th on.
RECURSIVE BestAfter(_, _, _)
BestAfter(fitness_scores, n, best) ==
    IF n > Len(fitness_scores) THEN best
    ELSE BestAfter(fitness_scores, n + 1,
                   IF fitness_scores[n].score > best.score THEN fitness_scores[n] ELSE best)

\* Lines 183-196: what one turn of the while loop may append or raise.
ChildOutcomes(selected) ==
    IF selected = <<>> THEN {IndexError}
    ELSE LET crossed == UNION {crossover_keys(selected[a], selected[b]) :
                                 a \in 1..Len(selected), b \in 1..Len(selected)}
             raised == {c \in crossed : c.err # "none"}
             children == {c.val : c \in crossed \ raised}
         IN raised \cup {Ok(c) : c \in children}
                   \cup {Ok(m) : m \in UNION {mutate_key(c) : c \in children}}

InitGenetic ==
    /\ pc = "ga_ready"
    /\ text \in SearchCiphertexts
    /\ key_len \in SearchKeyLengths
    /\ population_size \in 1..MaxPopulation
    /\ generations \in 0..MaxGenerations
    /\ key = <<>>
    /\ keep_spaces = FALSE
    /\ valid = "unset"
    /\ normalized = Unset
    /\ renormalized = Unset
    /\ encrypted = Unset
    /\ decrypted = Unset
    /\ NoOther
    /\ min_key_length = 0
    /\ max_key_length = 0
    /\ results = Unset
    /\ current_key = <<>>
    /\ current_score = 0
    /\ best_key = <<>>
    /\ best_plaintext = <<>>
    /\ best_score = 0
    /\ no_improvement_count = 0
    /\ iteration = 0
    /\ max_iterations = 0
    /\ population = <<>>
    /\ generation = 0
    /\ evaluated = -1

\* Lines 156-160.
GeneticStart ==
    /\ pc = "ga_ready"
    /\ population' \in [1..population_size -> generate_random_key(key_len)]
    /\ best_key' = None
    /\ best_plaintext' = None
    /\ best_score' = 0
    /\ generation' = 0
    /\ pc' = "ga_loop"
    /\ UNCHANGED <<text, min_key_length, max_key_length, key_len, results>>
    /\ UNCHANGED <<hillVars, population_size, generations, evaluated>>
    /\ UNCHANGED cipherVars
    /\ UNCHANGED otherVars

\* Lines 163-179 for one population: the best so far after the evaluation
\* (line 170), the highest score of the generation and the selected half.
Evaluated(ciphertext, individuals, size, best) ==
    LET fitness_scores == [i \in 1..Len(individuals) |-> Candidate(ciphertext, individuals[i])]
        sorted == SortByScore(fitness_scores)
    IN [best |-> BestAfter(fitness_scores, 1, best),
        top |-> sorted[1].score,
        selected |-> [i \in 1..(size \div 2) |-> sorted[i].key]]

\* Lines 162-198: one generation.  The decrypt of line 166 is not guarded.
GeneticGeneration ==
    /\ pc = "ga_loop"
    /\ generation < generations
    /\ LET failed == {i \in 1..Len(population) : decrypt(text, population[i]).err # "none"}
           Raised(e) ==
               /\ results' = e
               /\ pc' = "ga_raised"
               /\ UNCHANGED <<population, generation, bestVars, evaluated>>
       IN IF failed # {}
          THEN Raised(decrypt(text, population[CHOOSE i \in failed : \A j \in failed : i <= j]))
          ELSE \E g \in {Evaluated(text, population, population_size,
                                   [key |-> best_key, plaintext |-> best_plaintext,
                                    score |-> best_score])} :
               \E outcomes \in {ChildOutcomes(g.selected)} :
                  \/ \E e \in outcomes : e.err # "none" /\ Raised(e)
                  \/ /\ best_key' = g.best.key
                     /\ best_plaintext' = g.best.plaintext
                     /\ best_score' = g.best.score
                     /\ evaluated' = Max(evaluated, g.top)
                     /\ generation' = generation + 1
                     /\ UNCHANGED <<pc, results>>
                     /\ \E rest \in [1..(population_size - Len(g.selected)) ->
                                       {o.val : o \in {c \in outcomes : c.err = "none"}}] :
                           population' = g.selected \o rest
    /\ UNCHANGED <<text, min_key_length, max_key_length, key_len>>
    /\ UNCHANGED <<hillVars, population_size, generations>>
    /\ UNCHANGED cipherVars
    /\ UNCHANGED otherVars

\* Line 204.
GeneticReturn ==
    /\ pc = "ga_loop"
    /\ generation = generations
    /\ results' = Ok([key |-> best_key, plaintext |-> best_plaintext, score |-> best_score])
    /\ pc' = "ga_done"
    /\ UNCHANGED <<text, min_key_length, max_key_length, key_len>>
    /\ UNCHANGED <<hillVars, bestVars, gaVars, evaluated>>
    /\ UNCHANGED cipherVars
    /\ UNCHANGED otherVars

NextGenetic == GeneticStart \/ GeneticGeneration \/ GeneticReturn

SpecGenetic == InitGenetic /\ [][NextGenetic]_vars

\* hill_climbing_attack and genetic_algorithm_attack, either one called.
InitSearch == InitHill \/ InitGenetic

NextSearch == NextHill \/ NextGenetic

SpecSearch == InitSearch /\ [][NextSearch]_vars

\* ------------------------------------------------- crossover_keys, by call
\* Longest parents given to crossover_keys.
MaxCrossLen == 4

\* The parents: population holds key1 and key2, permutations of 1..key_len.
InitCrossover ==
    /\ pc = "cross_ready"
    /\ key_len \in 2..MaxCrossLen
    /\ \E keys \in {key_perms(key_len)} :
          population \in {<<keys[a], keys[b]>> : a \in 1..Len(keys), b \in 1..Len(keys)}
    /\ text = <<>>
    /\ key = <<>>
    /\ keep_spaces = FALSE
    /\ valid = "unset"
    /\ normalized = Unset
    /\ renormalized = Unset
    /\ encrypted = Unset
    /\ decrypted = Unset
    /\ NoOther
    /\ min_key_length = 0
    /\ max_key_length = 0
    /\ results = Unset
    /\ current_key = <<>>
    /\ current_score = 0
    /\ best_key = <<>>
    /\ best_plaintext = <<>>
    /\ best_score = 0
    /\ no_improvement_count = 0
    /\ iteration = 0
    /\ max_iterations = 0
    /\ population_size = 0
    /\ generation = 0
    /\ generations = 0
    /\ evaluated = -1

\* child = crossover_keys(parent1, parent2), line 188.
Crossover ==
    /\ pc = "cross_ready"
    /\ results' \in crossover_keys(population[1], population[2])
    /\ pc' = "crossed"
    /\ UNCHANGED <<text, min_key_length, max_key_length, key_len>>
    /\ UNCHANGED <<hillVars, bestVars, gaVars, evaluated>>
    /\ UNCHANGED cipherVars
    /\ UNCHANGED otherVars

NextCrossover == Crossover

SpecCrossover == InitCrossover /\ [][NextCrossover]_vars

\* ------------------------------------------------------ analyze_ciphertext
\* Longest ciphertext of the repeated patterns.
MaxAnalyzeLen == 18

\* calculate_ic counts in units of 1/ICScale.  Exact for a text of up to 10
\* letters: t * (t - 1) divides ICScale for every t in 2..10.
ICScale == 2520

\* calculate_ic(txt), times ICScale.
calculate_ic(txt) ==
    IF Len(txt) < 2 THEN 0
    ELSE LET t == UpperStr(txt)
             total_letters == AlphaCount(t)
             ic[l \in 0..26] ==
                IF l = 0 THEN 0
                ELSE ic[l - 1] + CountOf(t, UpperLetters[l]) * (CountOf(t, UpperLetters[l]) - 1)
         IN IF total_letters < 2 THEN 0
            ELSE (ic[26] * ICScale) \div (total_letters * (total_letters - 1))

\* Lines 330-332: columns[j], the characters at the indices i with
\* i % klen = j.
Column(ciphertext, klen, j) ==
    LET count == IF j < Len(ciphertext) THEN (Len(ciphertext) - j + klen - 1) \div klen ELSE 0
    IN [n \in 1..count |-> ciphertext[(n - 1) * klen + j + 1]]

\* Lines 335-337: ic_sum for one key length, times ICScale.
ic_sum(ciphertext, klen) ==
    LET partial[j \in 0..klen] ==
            IF j = 0 THEN 0
            ELSE partial[j - 1] + calculate_ic(Column(ciphertext, klen, j - 1))
    IN partial[klen]

\* range(2, min(length // 2, 15)) of line 329.
TrialLengths(length) == 2..(Min(length \div 2, 15) - 1)

\* ic_scores[k] - 0.067 without the abs, times 1000 * ICScale * k.
SignedDeviation(sum, klen) == 1000 * sum - 67 * ICScale * klen

\* abs(ic_scores[k] - 0.067) of line 345, where ic_scores[k] is sum / klen:
\* times 1000 * ICScale * klen.
Deviation(sum, klen) ==
    IF 1000 * sum >= 67 * ICScale * klen
    THEN 1000 * sum - 67 * ICScale * klen
    ELSE 67 * ICScale * klen - 1000 * sum

\* The sort key of length a is greater than that of length b.
Farther(sums, a, b) == Deviation(sums[a], a) * b > Deviation(sums[b], b) * a

\* sorted(): k put after every length whose key is not greater.
RECURSIVE InsertByDeviation(_, _, _)
InsertByDeviation(sums, sorted, k) ==
    IF sorted = <<>> THEN <<k>>
    ELSE IF Farther(sums, Head(sorted), k) THEN <<k>> \o sorted
    ELSE <<Head(sorted)>> \o InsertByDeviation(sums, Tail(sorted), k)

\* sorted(ic_scores.keys(), key=...): the keys are in ascending order.
SortedByDeviation(sums) ==
    LET hi == 1 + Cardinality(DOMAIN sums)
        sorted[k \in 1..hi] ==
            IF k = 1 THEN <<>> ELSE InsertByDeviation(sums, sorted[k - 1], k)
    IN sorted[hi]

\* Lines 322-325.
Factors(length) ==
    LET Divides(i) == length % i = 0
    IN SelectSeq([i \in 1..(Min(length, 20) - 2) |-> i + 1], Divides)

\* analyze_ciphertext(ciphertext); ic_scores[k] holds ic_sum, the score
\* being ic_sum / k.
analyze_ciphertext(ciphertext) ==
    LET length == Len(ciphertext)
        ic_scores == [k \in TrialLengths(length) |-> ic_sum(ciphertext, k)]
        sorted == SortedByDeviation(ic_scores)
    IN [length |-> length,
        factors |-> Factors(length),
        ic_scores |-> ic_scores,
        suggested_key_lengths |-> SubSeq(sorted, 1, Min(5, Len(sorted)))]

\* The ciphertexts analysed: a pattern repeated up to MaxAnalyzeLen
\* characters, and eight characters of a pattern followed by non-letters up
\* to 30 and 33 characters, where the limit of 15 on the trial lengths acts.
Repeated(pattern, n) == [i \in 1..n |-> pattern[((i - 1) % Len(pattern)) + 1]]

AnalyzeTexts ==
    LET patterns == SeqsUpTo({"A", "b", "-"}, 3) \ {<<>>}
    IN {Repeated(p, n) : p \in patterns, n \in 0..MaxAnalyzeLen}
       \cup {Repeated(p, 8) \o [i \in 1..(n - 8) |-> "-"] : p \in patterns, n \in {30, 33}}

InitAnalyze ==
    /\ pc = "analyze_ready"
    /\ text \in AnalyzeTexts
    /\ key = <<>>
    /\ keep_spaces = FALSE
    /\ valid = "unset"
    /\ normalized = Unset
    /\ renormalized = Unset
    /\ encrypted = Unset
    /\ decrypted = Unset
    /\ NoOther
    /\ NoAttack
    /\ NoSearch

Analyze ==
    /\ pc = "analyze_ready"
    /\ results' = Ok(analyze_ciphertext(text))
    /\ pc' = "analyzed"
    /\ UNCHANGED <<text, min_key_length, max_key_length, key_len>>
    /\ UNCHANGED cipherVars
    /\ UNCHANGED otherVars
    /\ UNCHANGED searchVars

NextAnalyze == Analyze

SpecAnalyze == InitAnalyze /\ [][NextAnalyze]_vars

\* ------------------------------------------------ evaluate_plaintext, by call
\* Longest text scored.
MaxScoreLen == 4

\* The texts scored: letters of both cases and a non-letter.
ScoreTexts == SeqsUpTo({"T", "h", "E", "-"}, MaxScoreLen)

InitScore ==
    /\ pc = "score_ready"
    /\ text \in ScoreTexts
    /\ key = <<>>
    /\ keep_spaces = FALSE
    /\ valid = "unset"
    /\ normalized = Unset
    /\ renormalized = Unset
    /\ encrypted = Unset
    /\ decrypted = Unset
    /\ NoOther
    /\ NoAttack
    /\ NoSearch

\* A call of evaluate_plaintext(text).
Evaluate ==
    /\ pc = "score_ready"
    /\ results' = Ok(evaluate_plaintext(text))
    /\ pc' = "scored"
    /\ UNCHANGED <<text, min_key_length, max_key_length, key_len>>
    /\ UNCHANGED searchVars
    /\ UNCHANGED cipherVars
    /\ UNCHANGED otherVars

\* A second call on the same text; evaluated holds what it returned.
EvaluateAgain ==
    /\ pc = "scored"
    /\ evaluated' = evaluate_plaintext(text)
    /\ pc' = "rescored"
    /\ UNCHANGED <<text, min_key_length, max_key_length, key_len, results>>
    /\ UNCHANGED <<hillVars, bestVars, gaVars>>
    /\ UNCHANGED cipherVars
    /\ UNCHANGED otherVars

NextScore == Evaluate \/ EvaluateAgain

SpecScore == InitScore /\ [][NextScore]_vars

\* ------------------------------------------------------ segment_text, by call
\* Longest text segmented.
MaxSegLen == 5

\* len(word) ** 1.5 for word lengths 1..15, in millionths of a point.
WordLengthScore ==
    <<1000000, 2828427, 5196152, 8000000, 11180339, 14696938, 18520259,
      22627416, 27000000, 31622776, 36482872, 41569219, 46872166, 52383203,
      58094750>>

\* A word's score when a one- or two-letter word is given nothing unless the
\* dictionary holds it.
word_score_dictionary_only(word) ==
    IF word \in COMMON_WORDS THEN WordLengthScore[Len(word)] ELSE 0

\* Lines 162-169: a dictionary word scores len ** 1.5, another word of one or
\* two characters len * 0.5, any other word 0; in millionths of a point.
word_score(word) ==
    IF word \in COMMON_WORDS THEN WordLengthScore[Len(word)]
    ELSE IF Len(word) <= 2 THEN Len(word) * 500000
    ELSE 0

\* The first start when the longest word tried is one character short.
FirstStartShort(i, max_word_len) == Max(0, i - max_word_len + 1)

\* Line 160: max(0, i - max_word_length), the first start of a word ending at i.
FirstStart(i, max_word_len) == Max(0, i - max_word_len)

\* dp[0] and the value every dp[i] starts from: (0.0, []).
EmptySegmentation == [score |-> 0, seg |-> <<>>]

\* Lines 160-175: the starts j, j+1, .., i-1 in turn; dp holds dp[0..i-1] at
\* positions 1..i, and a start replaces the best only when strictly better.
RECURSIVE ScanStarts(_, _, _, _, _)
ScanStarts(dp, txt, i, j, best) ==
    IF j >= i THEN best
    ELSE LET word == SubSeq(txt, j + 1, i)
             total_score == dp[j + 1].score + word_score(word)
             better == IF total_score > best.score
                       THEN [score |-> total_score,
                             seg |-> Append(dp[j + 1].seg, word)]
                       ELSE best
         IN ScanStarts(dp, txt, i, j + 1, better)

\* Lines 155-177: dp[i] for i = 1..n.
RECURSIVE FillTable(_, _, _, _)
FillTable(dp, txt, i, max_word_len) ==
    IF i > Len(txt) THEN dp
    ELSE FillTable(Append(dp, ScanStarts(dp, txt, i,
                                         FirstStart(i, max_word_len),
                                         EmptySegmentation)),
                   txt, i + 1, max_word_len)

\* ' '.join(words)
RECURSIVE JoinWithSpaces(_)
JoinWithSpaces(words) ==
    IF Len(words) = 0 THEN <<>>
    ELSE IF Len(words) = 1 THEN words[1]
    ELSE words[1] \o <<" ">> \o JoinWithSpaces(Tail(words))

\* segment_text(text, max_word_length): the words of dp[n], joined by spaces.
segment_text(txt, max_word_len) ==
    LET upper == UpperStr(txt)
        dp == FillTable(<<EmptySegmentation>>, upper, 1, max_word_len)
    IN JoinWithSpaces(dp[Len(upper) + 1].seg)

\* The texts segmented: letters of both cases that spell dictionary words.
SegmentTexts == SeqsUpTo({"A", "T", "h", "E"}, MaxSegLen)

\* The longest word lengths asked for; 15 is the default.
SegmentWordLengths == {1, 2, 3, 15}

InitSegment ==
    /\ pc = "segment_ready"
    /\ text \in SegmentTexts
    /\ max_word_length \in SegmentWordLengths
    /\ key = <<>>
    /\ keep_spaces = FALSE
    /\ valid = "unset"
    /\ normalized = Unset
    /\ renormalized = Unset
    /\ encrypted = Unset
    /\ decrypted = Unset
    /\ recommendations = <<>>
    /\ num_recommendations = 0
    /\ random_state = 0
    /\ seed = 0
    /\ draws = <<>>
    /\ all_lengths = <<>>
    /\ NoAttack
    /\ NoSearch

\* A call of segment_text(text, max_word_length).
Segment ==
    /\ pc = "segment_ready"
    /\ results' = Ok(segment_text(text, max_word_length))
    /\ pc' = "segmented"
    /\ UNCHANGED <<text, min_key_length, max_key_length, key_len>>
    /\ UNCHANGED searchVars
    /\ UNCHANGED cipherVars
    /\ UNCHANGED otherVars

NextSegment == Segment

SpecSegment == InitSegment /\ [][NextSegment]_vars

\* --------------------------------------- two searches served at the same time
\* attack.py draws every random key, swap, parent and crossover point from the
\* one generator of the random module (lines 186-193, 210, 217, 230).  Two
\* requests that app.py's server handles at the same time (lines 103-148)
\* run their searches on that one generator.

\* The generator's states, 0..RandomModulus - 1.
RandomModulus == 16

\* The random draws one search makes.
MaxDraws == 3

\* The searches served at the same time.
Runs == {1, 2}

\* One draw steps the generator's state; a draw returns the state it found.
NextRandom(state) == (5 * state + 3) % RandomModulus

InitConcurrent ==
    /\ pc = "concurrent"
    /\ seed \in 0..(RandomModulus - 1)
    /\ random_state = seed
    /\ draws = [run \in Runs |-> <<>>]
    /\ all_lengths = <<>>
    /\ text = <<>>
    /\ key = <<>>
    /\ keep_spaces = FALSE
    /\ valid = "unset"
    /\ normalized = Unset
    /\ renormalized = Unset
    /\ encrypted = Unset
    /\ decrypted = Unset
    /\ recommendations = <<>>
    /\ num_recommendations = 0
    /\ max_word_length = 0
    /\ NoAttack
    /\ NoSearch

\* One call of random.shuffle, random.sample, random.choice or random.random
\* by the search run: it reads and steps the generator all searches share.
Draw(run) ==
    /\ pc = "concurrent"
    /\ Len(draws[run]) < MaxDraws
    /\ draws' = [draws EXCEPT ![run] = Append(@, random_state)]
    /\ random_state' = NextRandom(random_state)
    /\ UNCHANGED <<pc, text, seed, recommendations, num_recommendations,
                   max_word_length, all_lengths>>
    /\ UNCHANGED attackVars
    /\ UNCHANGED searchVars
    /\ UNCHANGED cipherVars

\* A draw of the first request's search.
DrawFirst == Draw(1)

\* A draw of the second request's search.
DrawSecond == Draw(2)

NextConcurrent == DrawFirst \/ DrawSecond

SpecConcurrent == InitConcurrent /\ [][NextConcurrent]_vars

\* ----------------------------------------------------- recommender.py, by step
\* The num_recommendations asked for besides 0 and the default.
MaxRecommendations == 2

\* The default num_recommendations of line 15.
DefaultRecommendations == 10

\* common_starters of lines 173-174, in hundredths.
StarterWeight(c) ==
    CASE c = "T" -> 16 [] c = "A" -> 12 [] c = "O" -> 8 [] c = "S" -> 8
      [] c = "W" -> 7 [] c = "I" -> 7 [] c = "H" -> 6 [] c = "B" -> 5
      [] c = "F" -> 4 [] c = "M" -> 4 [] OTHER -> 0

\* score_starting_letters(txt): the mean weight of the characters at
\* 0, 10, 20, .., in millionths.
score_starting_letters(txt) ==
    IF txt = <<>> THEN 0
    ELSE LET t == UpperStr(txt)
             count == (Len(t) + 9) \div 10
             sum[n \in 0..count] ==
                IF n = 0 THEN 0
                ELSE sum[n - 1] + StarterWeight(t[10 * (n - 1) + 1])
         IN (sum[count] * 10000) \div count

\* calculate_confidence with the quotient cut to two decimals, not rounded.
calculate_confidence_truncated(score) ==
    Max(0, Min(150000, score)) \div 15

\* calculate_confidence(score): score / 150 * 100, held to 0..100, rounded
\* to two decimals (line 198).  The score is in thousandths of a point and
\* the confidence in hundredths of a percent, so the quotient is score / 15;
\* 15 is odd, so no quotient is half-way between two hundredths.
calculate_confidence(score) ==
    (Max(0, Min(150000, score)) + 7) \div 15

\* The elements of the set of numbers S, smallest first.
Ascending(S) == Reversed(Descending(S))

\* Lines 31-40: all_lengths.
AllLengths(ciphertext, max_len) ==
    LET analysis == analyze_ciphertext(ciphertext)
        suggested_lengths ==
            SubSeq(analysis.suggested_key_lengths, 1,
                   Min(5, Len(analysis.suggested_key_lengths)))
        lengths == {suggested_lengths[i] : i \in 1..Len(suggested_lengths)}
                   \cup {3, 4, 5, 6, 7}
    IN Ascending({l \in lengths : l <= max_len})

\* get_common_key_patterns(key_length), the first three patterns of each list
\* it may return: the listed ones for 2, 3 and 4, which are in the order of
\* itertools.permutations, else distinct keys in the order random.sample
\* drew them.
get_common_key_patterns(key_length) ==
    IF key_length \in {2, 3, 4}
    THEN {SubSeq(key_perms(key_length), 1, Min(3, Len(key_perms(key_length))))}
    ELSE LET keys == generate_random_key(key_length)
             n == Min(3, Cardinality(keys))
         IN {s \in [1..n -> keys] : \A i, j \in 1..n : s[i] = s[j] => i = j}

\* Lines 91-101: column col (from 1) takes the next col_length characters.
PatternColumn(ciphertext, key_length, col) ==
    LET col_length == Len(ciphertext) \div key_length
    IN SubSeq(ciphertext, (col - 1) * col_length + 1, col * col_length)

\* Lines 104-122: the columns' numbers, the highest total_score first
\* (freq_score * 0.7 + start_letter_score * 0.3, here times ten), joined.
NaturalKey(ciphertext, key_length) ==
    LET column_scores ==
            [col \in 1..key_length |->
                [col |-> col,
                 score |-> 7 * score_letter_frequency(PatternColumn(ciphertext, key_length, col))
                           + 3 * score_starting_letters(PatternColumn(ciphertext, key_length, col))]]
        ordered == SortByScore(column_scores)
    IN Join([i \in 1..key_length |-> DecStr(ordered[i].col)])

\* Lines 128-131: two of the orders random.shuffle may leave the digits in,
\* ascending and descending.
ShuffledDigits(key_length) ==
    {Join([i \in 1..key_length |-> DecStr(i)]),
     Join([i \in 1..key_length |-> DecStr(key_length + 1 - i)])}

\* analyze_column_patterns(ciphertext, key_length), the first three keys of
\* each list it may return; one shuffle may repeat another.
analyze_column_patterns(ciphertext, key_length) ==
    IF key_length <= 5 THEN get_common_key_patterns(key_length)
    ELSE IF key_length <= 7
         THEN {<<NaturalKey(ciphertext, key_length), a, b>> :
                  a \in ShuffledDigits(key_length),
                  b \in ShuffledDigits(key_length)}
         ELSE {<<NaturalKey(ciphertext, key_length)>>}

\* Lines 50-65: the record of a key that decrypts.
Recommendation(ciphertext, k, key_length) ==
    LET plaintext == decrypt(ciphertext, k).val
        dict_score == score_text_by_dictionary(plaintext)
        combined_score == score_with_dictionary(plaintext, dict_score)
    IN [key |-> k, key_length |-> key_length, plaintext |-> plaintext,
        score |-> combined_score,
        confidence |-> calculate_confidence(combined_score)]

\* Lines 48-67: the records of the keys that decrypt; the others are passed
\* over (except: continue).
ScoredKeys(ciphertext, keys, key_length) ==
    Join([j \in 1..Len(keys) |->
            IF decrypt(ciphertext, keys[j]).err = "none"
            THEN <<Recommendation(ciphertext, keys[j], key_length)>>
            ELSE <<>>])

\* The ciphertexts: none, two whose analysis suggests lengths 2 and 3, and
\* one of 22 characters that suggests 5 and 7 to 10.
RecommendTexts ==
    {<<>>,
     <<"H", "T", "E", "A", "H", "T">>,
     <<"H", "T", "A", "E", "T", "E", "A", "H">>,
     <<"T", "H", "E", "H", "A", "T", "T", "H">> \o [i \in 1..14 |-> "-"]}

\* The max_key_length values: none of the lengths, the suggested 2 only, up to
\* the sampled and the shuffled patterns, and past every length tried.
RecommendMaxLengths == {0, 2, 5, 6, 14}

RecommendCounts == {0, MaxRecommendations, DefaultRecommendations}

InitRecommend ==
    /\ pc = "rec_ready"
    /\ text \in RecommendTexts
    /\ max_key_length \in RecommendMaxLengths
    /\ num_recommendations \in RecommendCounts
    /\ recommendations = <<>>
    /\ all_lengths = <<>>
    /\ key = <<>>
    /\ keep_spaces = FALSE
    /\ valid = "unset"
    /\ normalized = Unset
    /\ renormalized = Unset
    /\ encrypted = Unset
    /\ decrypted = Unset
    /\ min_key_length = 0
    /\ key_len = 0
    /\ results = Unset
    /\ max_word_length = 0
    /\ random_state = 0
    /\ seed = 0
    /\ draws = <<>>
    /\ NoSearch

\* Lines 28-40.
RecommendStart ==
    /\ pc = "rec_ready"
    /\ all_lengths' = AllLengths(text, max_key_length)
    /\ recommendations' = <<>>
    /\ pc' = "rec_loop"
    /\ UNCHANGED <<text, num_recommendations, max_word_length, random_state,
                   seed, draws>>
    /\ UNCHANGED attackVars
    /\ UNCHANGED searchVars
    /\ UNCHANGED cipherVars

\* Lines 43-67, one key_length.
RecommendLength ==
    /\ pc = "rec_loop"
    /\ all_lengths # <<>>
    /\ key_len' = Head(all_lengths)
    /\ all_lengths' = Tail(all_lengths)
    /\ \E pattern_keys \in analyze_column_patterns(text, Head(all_lengths)) :
           recommendations' =
               recommendations \o ScoredKeys(text, pattern_keys, Head(all_lengths))
    /\ UNCHANGED <<pc, text, num_recommendations, max_word_length, random_state,
                   seed, draws>>
    /\ UNCHANGED <<min_key_length, max_key_length, results>>
    /\ UNCHANGED searchVars
    /\ UNCHANGED cipherVars

\* Lines 70-73: the sort, and the first num_recommendations returned.
RecommendReturn ==
    /\ pc = "rec_loop"
    /\ all_lengths = <<>>
    /\ \E sorted \in {SortByScore(recommendations)} :
           /\ recommendations' = sorted
           /\ results' = Ok(SubSeq(sorted, 1, Min(num_recommendations, Len(sorted))))
    /\ pc' = "recommended"
    /\ UNCHANGED <<text, all_lengths, num_recommendations, max_word_length,
                   random_state, seed, draws>>
    /\ UNCHANGED <<min_key_length, max_key_length, key_len>>
    /\ UNCHANGED searchVars
    /\ UNCHANGED cipherVars

NextRecommend == RecommendStart \/ RecommendLength \/ RecommendReturn

SpecRecommend == InitRecommend /\ [][NextRecommend]_vars

\* ================================================================== claims
NoFiller(s) == \A i \in 1..Len(s) : s[i] # Filler

NoSpace(s) == \A i \in 1..Len(s) : s[i] # " "

DigitValue(c) == CodePoint(c) - 48

\* The characters of s are digits whose values are each of 1..Len(s) once.
IsPermutationString(s) ==
    /\ \A i \in 1..Len(s) : IsDigitChar(s[i])
    /\ \A r \in 1..Len(s) : Cardinality({i \in 1..Len(s) : DigitValue(s[i]) = r}) = 1

\* The rank of position i of a keyword: letters before it in the alphabet,
\* plus equal letters at earlier positions, plus one.
KeywordRank(keyword, i) ==
    1 + Cardinality({j \in 1..Len(keyword) :
                        \/ CodePoint(Upper(keyword[j])) < CodePoint(Upper(keyword[i]))
                        \/ /\ Upper(keyword[j]) = Upper(keyword[i])
                           /\ j < i})

CharCount(s, c) == Cardinality({i \in 1..Len(s) : s[i] = c})

SameChars(a, b) ==
    \A c \in {a[i] : i \in 1..Len(a)} \cup {b[i] : i \in 1..Len(b)} :
        CharCount(a, c) = CharCount(b, c)

\* The text encrypt works on: spaces removed unless keep_spaces.
Stripped == IF keep_spaces THEN text ELSE RemoveSpaces(text)

\* C1: for every plaintext without the filler 'X' and every valid key,
\* encrypt with keep_spaces = false returns a ciphertext and decrypt of it
\* with the same key returns the plaintext (as encrypt takes it, spaces
\* removed).
C1_RoundTrip ==
    (~keep_spaces /\ validate_key(key) /\ NoFiller(text)) =>
        /\ pc = "encrypted" => encrypted.err = "none"
        /\ pc = "roundtrip" => decrypted = Ok(RemoveSpaces(text))

\* C2: validate_key is true exactly for a non-empty key that is all digits,
\* each rank 1..len(key) once, or all letters.
C2_ValidateIff ==
    pc = "validated" =>
        (valid <=> /\ key # <<>>
                   /\ \/ IsPermutationString(key)
                      \/ \A i \in 1..Len(key) : IsAlphaChar(key[i]))

C2_Witness ==
    /\ pc = "validated"
    /\ valid = TRUE
    /\ isdigit(key)
    /\ Len(key) = MaxKeyLen
    /\ key[1] # "1"

\* C3: for every key validate_key accepts, normalize_key of the normalized
\* key succeeds and returns the normalized key again.
C3_NormalizeIdempotent ==
    pc = "renormalized" => renormalized = normalized

\* C4: for every alphabetic keyword of length n, normalization yields a
\* permutation of exactly 1..n, position i holding the stable alphabetical
\* rank of its letter, and encrypt works on exactly n columns.
C4_KeywordRanks ==
    (pc = "encrypted" /\ isalpha(key)) =>
        /\ normalized.err = "none"
        /\ Len(normalized.val) = Len(key)
        /\ IsPermutationString(normalized.val)
        /\ \A i \in 1..Len(key) :
              DigitValue(normalized.val[i]) = KeywordRank(key, i)
        /\ encrypted.err = "none"
        /\ Len(encrypted.val) = CeilDiv(Len(Stripped), Len(key)) * Len(key)

\* C5: encrypt and decrypt fail with InvalidKey exactly when validate_key
\* is false, and return a result without error for every key it accepts.
C5_InvalidKeyIff ==
    /\ pc = "encrypted" =>
          /\ encrypted.err = "InvalidKey" <=> ~validate_key(key)
          /\ validate_key(key) => encrypted.err = "none"
    /\ pc = "decrypted" =>
          /\ decrypted.err = "InvalidKey" <=> ~validate_key(key)
          /\ validate_key(key) => decrypted.err = "none"

\* C6: for every space-free plaintext and valid key, decrypt of the
\* ciphertext returns the plaintext without its trailing run of 'X'.
C6_TrailingFillerOnly ==
    (~keep_spaces /\ validate_key(key) /\ NoSpace(text)) =>
        /\ pc = "encrypted" => encrypted.err = "none"
        /\ pc = "roundtrip" => decrypted = Ok(rstrip(text))

\* C7: for every plaintext and valid key of length n, the ciphertext has
\* rows * n characters, rows = ceil(len / n), fewer than n of them filler
\* added, and is the padded text read column by column in rank order, so
\* a rearrangement of the padded text.
C7_FullRectangle ==
    (pc = "encrypted" /\ validate_key(key)) =>
        LET n == Len(key)
            rows == CeilDiv(Len(Stripped), n)
            padded == Stripped \o [i \in 1..(rows * n - Len(Stripped)) |-> Filler]
        IN /\ encrypted.err = "none"
           /\ rows * n - Len(Stripped) < n
           /\ Len(encrypted.val) = rows * n
           /\ SameChars(encrypted.val, padded)
           /\ \A rank \in 1..n : \A r \in 1..rows :
                 \E col \in 1..n :
                    /\ DigitValue(normalized.val[col]) = rank
                    /\ encrypted.val[(rank - 1) * rows + r] = padded[(r - 1) * n + col]

\* a < b for Python strings: the first differing character decides, and a
\* proper prefix is smaller.
LexLess(a, b) ==
    \E i \in 1..(Min(Len(a), Len(b)) + 1) :
        /\ \A j \in 1..(i - 1) : a[j] = b[j]
        /\ \/ i = Len(a) + 1 /\ i <= Len(b)
           \/ /\ i <= Len(a)
              /\ i <= Len(b)
              /\ CodePoint(a[i]) < CodePoint(b[i])

\* C8: brute_force_attack returns exactly one entry (key, plaintext, score)
\* for every permutation of every key length up to max_len, with plaintext =
\* decrypt(ciphertext, key) and score the dictionary-weighted score of it:
\* every candidate the loop reaches appends its one entry.
C8_OneEntryPerPermutation ==
    pc = "tried" =>
        /\ Len(results.val) = 1
        /\ results.val[1].key = key
        /\ decrypt(text, key) = Ok(results.val[1].plaintext)
        /\ results.val[1].score = evaluate_plaintext(results.val[1].plaintext)

\* C9 as claimed: the list of brute_force_attack is in non-increasing score
\* order and of two entries of equal score the one with the
\* lexicographically smaller key string comes first, whatever their lengths.
C9_LexicographicTies ==
    pc = "brute_done" =>
        \A i, j \in 1..Len(results.val) :
            i < j =>
                /\ results.val[i].score >= results.val[j].score
                /\ results.val[i].score = results.val[j].score =>
                      LexLess(results.val[i].key, results.val[j].key)

\* C9 as amended: non-increasing score order; of two entries of equal score
\* the one with the shorter key comes first, and of two with keys of the
\* same length the one with the lexicographically smaller key string.
C9_ShorterThenLexicographic ==
    pc = "brute_done" =>
        \A i, j \in 1..Len(results.val) :
            i < j =>
                /\ results.val[i].score >= results.val[j].score
                /\ results.val[i].score = results.val[j].score =>
                      \/ Len(results.val[i].key) < Len(results.val[j].key)
                      \/ /\ Len(results.val[i].key) = Len(results.val[j].key)
                         /\ LexLess(results.val[i].key, results.val[j].key)

\* A brute-force list with a tie above 0 between keys of different lengths
\* and a tie between keys of the same length.
C9_Witness ==
    /\ pc = "brute_done"
    /\ max_key_length = MaxBruteLen
    /\ \E i, j \in 1..Len(results.val) :
          /\ i < j
          /\ results.val[i].score = results.val[j].score
          /\ results.val[i].score > 0
          /\ Len(results.val[i].key) < Len(results.val[j].key)
    /\ \E i, j \in 1..Len(results.val) :
          /\ i < j
          /\ results.val[i].score = results.val[j].score
          /\ Len(results.val[i].key) = Len(results.val[j].key)

\* C10: every list brute_force_attack or smart_attack returns is in
\* non-increasing score order, and of two candidates of equal score the one
\* with the shorter key never comes after the one with the longer key.
C10_ShorterKeyFirst ==
    (pc \in {"brute_done", "smart_done"}) =>
        \A i, j \in 1..Len(results.val) :
            i < j =>
                /\ results.val[i].score >= results.val[j].score
                /\ (/\ results.val[i].score = results.val[j].score
                    /\ results.val[i].key # None
                    /\ results.val[j].key # None) =>
                      Len(results.val[i].key) <= Len(results.val[j].key)

\* A smart_attack list where a brute-force entry and a heuristic entry (key
\* longer than 7) tie above 0.
C10_Witness ==
    /\ pc = "smart_done"
    /\ \E i, j \in 1..Len(results.val) :
          /\ i < j
          /\ results.val[i].score = results.val[j].score
          /\ results.val[i].score > 0
          /\ results.val[i].key # None
          /\ results.val[j].key # None
          /\ Len(results.val[i].key) <= BruteForceLimit
          /\ Len(results.val[j].key) > BruteForceLimit

\* C11: in a search a candidate key whose decode fails is skipped and the
\* search goes on: hill_climbing_attack never ends with the error of a decode.
C11_DecodeFailureSkipped ==
    ~(pc = "hill_raised" /\ results.err = "InvalidKey")

\* C12: a search with no successful candidate surfaces NoValidCandidates:
\* brute_force_attack never returns an empty list as its result.
C12_NoValidCandidatesSurfaced ==
    pc = "brute_done" =>
        \/ results.err = "NoValidCandidates"
        \/ results.err = "none" /\ results.val # <<>>

\* C13: hill_climbing_attack returns a score at least that of every key
\* evaluated in the run, the fresh key of each restart included, with
\* plaintext = decrypt(ciphertext, key) and score = evaluate_plaintext(plaintext).
C13_GlobalBest ==
    pc = "hill_done" =>
        /\ results.val.score >= evaluated
        /\ decrypt(text, results.val.key) = Ok(results.val.plaintext)
        /\ results.val.score = evaluate_plaintext(results.val.plaintext)

\* C14: within one run of hill_climbing_attack or genetic_algorithm_attack
\* the best-so-far score never decreases from one iteration or generation
\* to the next, and the score returned is at least the best so far.
C14_BestNeverDecreases ==
    [][(pc \in {"hill_loop", "ga_loop"} /\ pc' \notin {"hill_raised", "ga_raised"}) =>
          /\ best_score' >= best_score
          /\ (pc' \in {"hill_done", "ga_done"}) => results'.val.score >= best_score]_vars

\* A hill-climbing run that ends with its best above the key it stands on.
C14_Witness ==
    /\ pc = "hill_done"
    /\ iteration = MaxIterations
    /\ results.val.score = best_score
    /\ best_score > current_score

\* C15: for every positive population_size and key length 1..9 the
\* population of genetic_algorithm_attack has population_size individuals,
\* each a permutation of 1..key_length, at the start of every generation,
\* and selection, crossover and mutation keep it so (the run goes on).
C15_PopulationValid ==
    (key_len \in 1..9 /\ pc \in {"ga_loop", "ga_done", "ga_raised"}) =>
        /\ pc # "ga_raised"
        /\ Len(population) = population_size
        /\ \A i \in 1..Len(population) :
              /\ Len(population[i]) = key_len
              /\ IsPermutationString(population[i])

\* C16: crossover_keys(A, B) for permutations A, B of 1..n, 2 <= n <= 9,
\* returns without an index error a permutation of 1..n equal to A on one
\* contiguous non-empty slice, the other positions holding, left to right,
\* the values of B not in the slice in the order they have in B.
C16_OrderCrossover ==
    pc = "crossed" =>
        /\ results.err = "none"
        /\ Len(results.val) = key_len
        /\ IsPermutationString(results.val)
        /\ \E lo \in 1..key_len : \E hi \in lo..key_len :
              LET InSlice(c) == \E n \in lo..hi : population[1][n] = c
                  NotInSlice(c) == ~InSlice(c)
                  outside == SubSeq(results.val, 1, lo - 1)
                             \o SubSeq(results.val, hi + 1, key_len)
              IN /\ \A n \in lo..hi : results.val[n] = population[1][n]
                 /\ outside = SelectSeq(population[2], NotInSlice)

\* A child of the longest parents that is neither parent.
C16_Witness ==
    /\ pc = "crossed"
    /\ key_len = MaxCrossLen
    /\ results.err = "none"
    /\ results.val # population[1]
    /\ results.val # population[2]

\* C17: genetic_algorithm_attack, key length 2..9, population_size >= 2,
\* generations >= 0, returns a key that is a permutation of 1..key_length,
\* the plaintext decrypt(ciphertext, key) and as score the maximum over all
\* individuals evaluated.
C17_BestEver ==
    (pc = "ga_done" /\ key_len \in 2..9 /\ population_size >= 2) =>
        /\ Len(results.val.key) = key_len
        /\ IsPermutationString(results.val.key)
        /\ decrypt(text, results.val.key) = Ok(results.val.plaintext)
        /\ results.val.score = evaluated

\* C18: for every max_len > 7, the default 10 included, smart_attack
\* returns a list in non-increasing score order made of the 10 best
\* brute-force candidates of lengths up to 7 and two results, one of hill
\* climbing and one genetic, for each key length from 8 to max_len.
C18_SmartComposition ==
    (max_key_length > BruteForceLimit /\ min_key_length = 1) =>
        /\ pc # "smart_raised"
        /\ pc = "smart_done" =>
              LET Short(e) == e.key # None /\ Len(e.key) <= BruteForceLimit
                  brute_results == brute_force_attack(text, BruteForceLimit)
              IN /\ \A i, j \in 1..Len(results.val) :
                       i < j => results.val[i].score >= results.val[j].score
                 /\ Len(results.val) = TopKept + 2 * (max_key_length - BruteForceLimit)
                 /\ SelectSeq(results.val, Short) = SubSeq(brute_results, 1, TopKept)
                 /\ \A n \in (BruteForceLimit + 1)..max_key_length :
                       Cardinality({i \in 1..Len(results.val) :
                                       /\ results.val[i].key # None
                                       /\ Len(results.val[i].key) = n}) <= 2

\* C19: every key in the list smart_attack(ciphertext, min_len, max_len)
\* returns has a length between min_len and max_len.
C19_LengthsInRange ==
    pc = "smart_done" =>
        \A i \in 1..Len(results.val) :
            results.val[i].key # None =>
                /\ min_key_length <= Len(results.val[i].key)
                /\ Len(results.val[i].key) <= max_key_length

\* The trial lengths of a ciphertext of n characters: 2 <= k < min(n / 2, 15).
C20_Trials(n) == {k \in 2..14 : k < n \div 2}

\* The Index of Coincidence of the characters of text at the indices i with
\* i mod k = j, times ICScale.
C20_ColumnIC(k, j) ==
    LET at == {i \in 1..Len(text) : (i - 1) % k = j}
        Count(c) == Cardinality({i \in at : Upper(text[i]) = c})
        letters == Cardinality({i \in at : IsAlphaChar(text[i])})
        pairs[l \in 0..26] ==
            IF l = 0 THEN 0
            ELSE pairs[l - 1] + Count(UpperLetters[l]) * (Count(UpperLetters[l]) - 1)
    IN IF Cardinality(at) < 2 \/ letters < 2 THEN 0
       ELSE (pairs[26] * ICScale) \div (letters * (letters - 1))

\* The sum of the Index of Coincidence over the k columns, times ICScale.
C20_SumIC(k) ==
    LET partial[j \in 0..k] ==
            IF j = 0 THEN 0 ELSE partial[j - 1] + C20_ColumnIC(k, j - 1)
    IN partial[k]

\* |average IC - 0.067| of length a is less than that of length b, or equal
\* to it with a < b.
C20_Before(a, b) ==
    LET Abs(x) == IF x < 0 THEN 0 - x ELSE x
        da == Abs(1000 * C20_SumIC(a) - 67 * ICScale * a) * b
        db == Abs(1000 * C20_SumIC(b) - 67 * ICScale * b) * a
    IN da < db \/ (da = db /\ a < b)

\* C20: analyze_ciphertext gives every trial length k in [2, min(len/2, 15))
\* the average Index of Coincidence of its k round-robin columns, and
\* suggests the (at most 5) trial lengths whose average is closest to
\* 0.067, closest first, ties by ascending length, and no other length.
C20_SuggestedLengths ==
    pc = "analyzed" =>
        LET trials == C20_Trials(Len(text))
            suggested == results.val.suggested_key_lengths
            chosen == {suggested[i] : i \in 1..Len(suggested)}
        IN /\ DOMAIN results.val.ic_scores = trials
           /\ \A k \in trials : results.val.ic_scores[k] = C20_SumIC(k)
           /\ Len(suggested) = Min(5, Cardinality(trials))
           /\ Cardinality(chosen) = Len(suggested)
           /\ chosen \subseteq trials
           /\ \A i, j \in 1..Len(suggested) :
                 i < j => C20_Before(suggested[i], suggested[j])
           /\ \A k \in trials \ chosen : \A c \in chosen : C20_Before(c, k)

\* More than 5 trial lengths, two suggested lengths at the same distance
\* and two suggested out of the order of their lengths.
C20_Witness ==
    /\ pc = "analyzed"
    /\ Cardinality(C20_Trials(Len(text))) > 5
    /\ Len(results.val.suggested_key_lengths) = 5
    /\ \E i, j \in 1..5 :
          /\ i < j
          /\ results.val.suggested_key_lengths[i] > results.val.suggested_key_lengths[j]
    /\ \E i, j \in 1..5 :
          /\ i < j
          /\ ~C20_Before(results.val.suggested_key_lengths[j],
                         results.val.suggested_key_lengths[i])
          /\ LET a == results.val.suggested_key_lengths[i]
                 b == results.val.suggested_key_lengths[j]
             IN Deviation(results.val.ic_scores[a], a) * b
                = Deviation(results.val.ic_scores[b], b) * a

C25_GreedyAscent ==
    /\ [](pc # "hill_raised")
    /\ [](pc = "hill_done" => iteration = max_iterations)
    /\ [](pc \in {"hill_loop", "hill_done"} =>
             /\ iteration <= max_iterations
             /\ no_improvement_count < MaxNoImprovement)
    /\ [][(pc = "hill_loop" /\ pc' = "hill_loop") =>
             /\ iteration' = iteration + 1
             /\ \/ /\ current_score' > current_score
                   /\ no_improvement_count' = 0
                \/ /\ current_key' = current_key
                   /\ current_score' = current_score
                   /\ no_improvement_count' = no_improvement_count + 1
                \/ /\ no_improvement_count = MaxNoImprovement - 1
                   /\ no_improvement_count' = 0
                   /\ current_key' \in generate_random_key(key_len)]_vars

\* C27: decrypt only rearranges: for every ciphertext and every valid key
\* the text read off the matrix before the filler is stripped has the
\* characters of the ciphertext, each as often, and the plaintext returned
\* is that text without its trailing fillers, so no longer than the
\* ciphertext.
C27_OnlyRearranges ==
    (pc = "decrypted" /\ validate_key(key)) =>
        /\ normalized.err = "none"
        /\ decrypted.err = "none"
        /\ SameChars(Reconstructed(text, normalized.val), text)
        /\ decrypted.val = rstrip(Reconstructed(text, normalized.val))
        /\ Len(decrypted.val) <= Len(text)

\* The tokens of a string, which single spaces separate.
RECURSIVE SplitAt(_, _, _)
SplitAt(s, i, token) ==
    IF i > Len(s) THEN <<token>>
    ELSE IF s[i] = " " THEN <<token>> \o SplitAt(s, i + 1, <<>>)
    ELSE SplitAt(s, i + 1, Append(token, s[i]))

Tokens(s) == IF Len(s) = 0 THEN <<>> ELSE SplitAt(s, 1, <<>>)

\* The score C23 gives a token.
C23_TokenScore(token) ==
    IF token \in COMMON_WORDS THEN WordLengthScore[Len(token)]
    ELSE IF Len(token) <= 2 THEN Len(token) * 500000
    ELSE 0

RECURSIVE C23_Total(_)
C23_Total(tokens) ==
    IF Len(tokens) = 0 THEN 0
    ELSE C23_TokenScore(tokens[1]) + C23_Total(Tail(tokens))

\* The split of s that cuts after every position of the set cuts.
RECURSIVE C23_SplitBy(_, _, _, _)
C23_SplitBy(s, cuts, i, token) ==
    IF i > Len(s) THEN (IF Len(token) = 0 THEN <<>> ELSE <<token>>)
    ELSE IF i \in cuts
         THEN <<Append(token, s[i])>> \o C23_SplitBy(s, cuts, i + 1, <<>>)
         ELSE C23_SplitBy(s, cuts, i + 1, Append(token, s[i]))

\* Every way of splitting s into consecutive tokens no longer than longest.
C23_Splits(s, longest) ==
    {sp \in {C23_SplitBy(s, cuts, 1, <<>>) : cuts \in SUBSET (1..(Len(s) - 1))} :
        \A k \in 1..Len(sp) : Len(sp[k]) <= longest}

\* C23: the tokens segment_text returns split the upper-cased text into
\* consecutive tokens no longer than max_word_length, and no such split has a
\* higher total score.
C23_OptimalSegmentation ==
    (pc = "segmented") =>
        /\ results.err = "none"
        /\ Tokens(results.val) \in C23_Splits(UpperStr(text), max_word_length)
        /\ \A sp \in C23_Splits(UpperStr(text), max_word_length) :
               C23_Total(sp) <= C23_Total(Tokens(results.val))

\* A five-letter text segmented into the dictionary words THE and AT, with
\* words of up to three letters allowed.
C23_Witness ==
    /\ pc = "segmented"
    /\ max_word_length = 3
    /\ Len(text) = MaxSegLen
    /\ Tokens(results.val) = <<<<"T", "H", "E">>, <<"A", "T">>>>

\* C26: with the default max_word_length, the tokens of segment_text(text),
\* concatenated, are text.upper(), and every token has 1 to 15 characters.
C26_KeepsCharacters ==
    (pc = "segmented" /\ max_word_length = 15 /\ NoSpace(text)) =>
        /\ results.err = "none"
        /\ RemoveSpaces(results.val) = UpperStr(text)
        /\ Join(Tokens(results.val)) = UpperStr(text)
        /\ \A k \in 1..Len(Tokens(results.val)) :
               /\ Len(Tokens(results.val)[k]) >= 1
               /\ Len(Tokens(results.val)[k]) <= 15

\* A text that is no dictionary word, cut into a word and single letters.
C26_Witness ==
    /\ pc = "segmented"
    /\ max_word_length = 15
    /\ text = <<"h", "E", "A", "T", "h">>
    /\ Len(Tokens(results.val)) >= 2

\* The first n draws of a search that runs alone on a generator seeded s.
RECURSIVE C24_Alone(_, _)
C24_Alone(s, n) ==
    IF n = 0 THEN <<>> ELSE <<s>> \o C24_Alone(NextRandom(s), n - 1)

\* C24: what a search has drawn so far is what it draws when the other search
\* draws nothing, however the two searches' draws interleave.
C24_IndependentStreams ==
    (pc = "concurrent") =>
        \A run \in Runs : draws[run] = C24_Alone(seed, Len(draws[run]))

\* The key lengths C21 allows: those analyze_ciphertext suggests, and 3 to 7.
C21_Lengths ==
    LET suggested == analyze_ciphertext(text).suggested_key_lengths
    IN {suggested[i] : i \in 1..Len(suggested)} \cup {3, 4, 5, 6, 7}

\* score / 150 * 100 held to 0..100, in fifteenths of a hundredth of a percent.
C21_Clamped(score) == IF score < 0 THEN 0 ELSE IF score > 150000 THEN 150000 ELSE score

\* What C21 says of the records but for their confidence: at most
\* num_recommendations, in non-increasing score order, each key a valid
\* permutation of an allowed length that decrypts to the plaintext, and no
\* record left out scores higher than one returned.
C21_Records(r) ==
    /\ Len(r) <= num_recommendations
    /\ \A i \in 1..(Len(r) - 1) : r[i].score >= r[i + 1].score
    /\ \A i \in 1..Len(r) :
           /\ validate_key(r[i].key)
           /\ IsPermutationString(r[i].key)
           /\ Len(r[i].key) <= max_key_length
           /\ Len(r[i].key) \in C21_Lengths
           /\ decrypt(text, r[i].key) = Ok(r[i].plaintext)
           /\ r[i].score = evaluate_plaintext(r[i].plaintext)
    /\ Len(r) <= Len(recommendations)
    /\ r = SubSeq(recommendations, 1, Len(r))
    /\ \A i \in 1..Len(r) : \A j \in (Len(r) + 1)..Len(recommendations) :
           recommendations[j].score <= r[i].score

\* C21 as amended: the records are as C21 says, and each confidence is
\* score / 150 * 100 held to 0..100 and rounded to two decimals.
C21_RoundedConfidence ==
    (pc = "recommended") =>
        /\ results.err = "none"
        /\ C21_Records(results.val)
        /\ \A i \in 1..Len(results.val) :
               /\ 15 * results.val[i].confidence - 7 <= C21_Clamped(results.val[i].score)
               /\ C21_Clamped(results.val[i].score) <= 15 * results.val[i].confidence + 7
               /\ results.val[i].confidence \in 0..10000

\* C21: the records are as C21 says, and each confidence is exactly
\* score / 150 * 100 held to 0..100.
C21_ExactConfidence ==
    (pc = "recommended") =>
        /\ results.err = "none"
        /\ C21_Records(results.val)
        /\ \A i \in 1..Len(results.val) :
               15 * results.val[i].confidence = C21_Clamped(results.val[i].score)

\* A call that returns num_recommendations records and leaves out a lower
\* scored one, with a key of a suggested length outside 3..7 whose
\* confidence is not score / 150 * 100 to the last decimal.
C21_Witness ==
    /\ pc = "recommended"
    /\ num_recommendations = MaxRecommendations
    /\ Len(results.val) = MaxRecommendations
    /\ Len(recommendations) > MaxRecommendations
    /\ recommendations[Len(recommendations)].score < results.val[1].score
    /\ \E i \in 1..Len(results.val) :
           /\ Len(results.val[i].key) \notin 3..7
           /\ 15 * results.val[i].confidence # results.val[i].score

====
